---------------------------- MODULE Spec2Model ----------------------------
(***************************************************************************)
(* A model of the local discovery heuristics of lora_wizard.py:            *)
(*   - scan_for_runs            the run-directory scan (ScanSpec)          *)
(*   - resolve_lora_target_dir  the destination resolver (ResolveSpec)     *)
(*   - collect_training_info    the configuration aggregator (ConfigSpec)  *)
(*   - retry_on_error           the retry helper (RetrySpec)               *)
(*   - cleanup_on_exit          the exit cleanup (CleanupSpec, UploadSpec) *)
(*   - the copy and download loops (CopySpec, BatchSpec)                   *)
(* Each specification starts from a bounded family of filesystems and      *)
(* applies the operation as the source computes it.                        *)
(***************************************************************************)
EXTENDS Integers, Sequences, FiniteSets, TLC

VARIABLES
    \* ---- run-directory scan ----
    chainLen,      \* number of plain directories chained below the top directory
    sub,           \* the directories below the end of the chain: parent and kind
    search_roots,  \* the list the scan loop iterates over (src 1210-1221)
    ri,            \* position of the loop `for root in search_roots` (src 1253)
    found_runs,    \* the list found_runs (src 1226)
    \* ---- destination resolver ----
    fs,              \* the directories that exist, as absolute paths
    base_dir,        \* the argument of resolve_lora_target_dir, made absolute
    environ,         \* LORA_TARGET_DIR and LORAS_DIR
    rpc,             \* "call" before resolve_lora_target_dir, "done" after
    scanned,         \* whether the call walked the search roots
    lora_candidates, \* set(lora_candidates) of the call
    models_dirs,     \* set(models_dirs) of the call
    makedirs_log,    \* the os.makedirs calls of the call, in order, with their outcome
    result,          \* the (path, status) the call returned
    \* ---- configuration aggregator ----
    run_dir,       \* the argument of collect_training_info
    files,         \* the files on disk: name -> directory and lines
    cpc,           \* "call" before collect_training_info, "done" after
    toml_files,    \* the list toml_files of the call: discovery order
    training_info, \* the keys and values of the dict the call returned
    source_files,  \* its entry 'source_files' (<<>>: no such entry)
    saved_text,    \* the lines of training_info.txt (<<>>: not written)
    save_result,   \* what save_training_info returned
    \* ---- masking ----
    mask_text,     \* the argument text of mask_sensitive_data
    mask_token,    \* its argument token
    mask_out,      \* what it returned
    mpc,           \* "call" before mask_sensitive_data, "done" after
    \* ---- the session: token, credential helper, exit ----
    session_token, \* token: the access token of the session
    umask,         \* the process's file mode creation mask
    spc,           \* where the main program stands
    printed,       \* the messages printed that were built from a failure output
    askpass_script,\* the file /tmp/hf_git_askpass_<pid>.sh
    registered,    \* whether the removal of the script is registered with atexit
    exit_path,     \* how the process came to exit
    \* ---- epoch folders and epoch ranges ----
    listed_folders,\* the epoch folders of the run directory as os.listdir gave them
    epoch_folders, \* the list epoch_folders: as listed, then sorted
    min_epoch,     \* the smallest epoch number discovered
    max_epoch,     \* the largest
    from_input,    \* what the user typed for FROM
    to_input,      \* what the user typed for TO
    epoch_range,   \* epoch_from, epoch_to, whether a warning was given, whether the run ended
    epc,           \* where the epoch code stands
    \* ---- retry_on_error ----
    max_retries,   \* its argument max_retries
    delay,         \* its argument delay
    attempt,       \* the loop variable of `for attempt in range(max_retries)`
    func_calls,    \* how each call of func ended, in order
    sleeps,        \* the arguments of the time.sleep calls, in order
    last_exception,\* the local last_exception
    retry_out,     \* how retry_on_error ended
    tpc,           \* where retry_on_error stands
    \* ---- cleanup list, clone and exit ----
    cwd,           \* the process's current directory
    disk,          \* the files and directories that exist, as absolute paths
    locked,        \* those of them whose removal fails
    CLEANUP_DIRS,  \* the global list CLEANUP_DIRS (src 25)
    kpc,           \* where the upload flow stands
    cleanup_calls, \* how many times cleanup_on_exit has run
    fresh_clone,   \* the directory cloned after it was registered (<<>>: none)
    pushed,        \* whether git push succeeded
    removed,       \* the paths cleanup_on_exit has applied shutil.rmtree to
    cleanup_error, \* the exception that left cleanup_on_exit ("none": it returned)
    \* ---- batch transfers: the upload copy loop, the range download loop ----
    epoch_dirs,    \* the epoch folders of run_dir: name -> whether the chosen file is in it
    final_present, \* whether run_dir holds final.safetensors
    remote_epochs, \* the numbers n with a file <prefix>n.safetensors in the repository
    batch_from,    \* epoch_from as applied
    batch_to,      \* epoch_to as applied
    num,           \* the loop variable of the copy loop
    files_to_download, \* the list files_to_download, as epoch numbers
    di,            \* position of the loop over files_to_download
    success_count, \* the local success_count
    fail_count,    \* the local fail_count
    added,         \* the files put in place: destination number and source folder
    raised,        \* the numbers whose shutil.copy2 or hf_hub_download raised
    bpc,           \* where the batch stands
    exit_status    \* the process's exit status (NotExited: still running)

scanVars == <<chainLen, sub, search_roots, ri, found_runs>>

resolveVars ==
    <<fs, base_dir, environ, rpc, scanned, lora_candidates, models_dirs, makedirs_log, result>>

configVars ==
    <<run_dir, files, cpc, toml_files, training_info, source_files, saved_text, save_result>>

maskVars == <<mask_text, mask_token, mask_out, mpc>>

credVars == <<session_token, umask, spc, printed, askpass_script, registered, exit_path>>

epochVars ==
    <<listed_folders, epoch_folders, min_epoch, max_epoch, from_input, to_input, epoch_range, epc>>

retryVars ==
    <<max_retries, delay, attempt, func_calls, sleeps, last_exception, retry_out, tpc>>

cleanupVars ==
    <<cwd, disk, locked, CLEANUP_DIRS, kpc, cleanup_calls, fresh_clone, pushed, removed,
      cleanup_error>>

batchVars ==
    <<epoch_dirs, final_present, remote_epochs, batch_from, batch_to, num, files_to_download,
      di, success_count, fail_count, added, raised, bpc, exit_status>>

vars == <<scanVars, resolveVars, configVars, maskVars, credVars, epochVars, retryVars, cleanupVars, batchVars>>

Range(s) == {s[i] : i \in 1..Len(s)}

\* all orderings of a finite set, as sequences
Orderings(S) ==
    {s \in [1..Cardinality(S) -> S] : \A i, j \in 1..Cardinality(S) : s[i] = s[j] => i = j}

NoResult == [path |-> <<>>, status |-> "none"]

\* the empty dict
EmptyDict == [k \in {} |-> <<>>]

\* what the user typed: nothing, a number in digits, or something else
Blank == [kind |-> "blank", value |-> 0]

\* no range chosen
NoRange == [epoch_from |-> 0, epoch_to |-> 0, warned |-> FALSE, exited |-> FALSE]

\* the epoch variables where the epoch code is not exercised
EpochIdle ==
    /\ listed_folders = <<>>
    /\ epoch_folders = <<>>
    /\ min_epoch = 0
    /\ max_epoch = 0
    /\ from_input = Blank
    /\ to_input = Blank
    /\ epoch_range = NoRange
    /\ epc = "idle"

\* no file at the script's path
NoScript == [exists |-> FALSE, mode |-> {}, content |-> <<>>]

\* last_exception = None
NoException == [type |-> "None", call |-> 0]

\* retry_on_error has not ended
NoOutcome == [kind |-> "none", type |-> "None", call |-> 0]

\* the retry variables where retry_on_error is not exercised
RetryIdle ==
    /\ max_retries = 0
    /\ delay = 0
    /\ attempt = 0
    /\ func_calls = <<>>
    /\ sleeps = <<>>
    /\ last_exception = NoException
    /\ retry_out = NoOutcome
    /\ tpc = "idle"

\* the process has not exited
NotExited == 0 - 1

\* the batch variables where no batch is exercised
BatchIdle ==
    /\ epoch_dirs = EmptyDict
    /\ final_present = FALSE
    /\ remote_epochs = {}
    /\ batch_from = 0
    /\ batch_to = 0
    /\ num = 0
    /\ files_to_download = <<>>
    /\ di = 0
    /\ success_count = 0
    /\ fail_count = 0
    /\ added = {}
    /\ raised = {}
    /\ bpc = "idle"
    /\ exit_status = NotExited

\* the cleanup variables where the cleanup is not exercised
CleanupIdle ==
    /\ cwd = <<>>
    /\ disk = {}
    /\ locked = {}
    /\ CLEANUP_DIRS = <<>>
    /\ kpc = "idle"
    /\ cleanup_calls = 0
    /\ fresh_clone = <<>>
    /\ pushed = FALSE
    /\ removed = {}
    /\ cleanup_error = "none"

\* the session's variables where the session is not exercised
CredIdle ==
    /\ session_token = <<>>
    /\ umask = {}
    /\ spc = "idle"
    /\ printed = <<>>
    /\ askpass_script = NoScript
    /\ registered = FALSE
    /\ exit_path = "none"

\* the masking variables where masking is not exercised
MaskIdle ==
    /\ mask_text = <<>>
    /\ mask_token = <<>>
    /\ mask_out = <<>>
    /\ mpc = "idle"

\* the aggregator's variables where the aggregator is not exercised
ConfigIdle ==
    /\ run_dir = <<>>
    /\ files = EmptyDict
    /\ cpc = "idle"
    /\ toml_files = <<>>
    /\ training_info = EmptyDict
    /\ source_files = <<>>
    /\ saved_text = <<>>
    /\ save_result = FALSE

\* the resolver's variables where the resolver is not exercised
ResolveIdle ==
    /\ fs = {<<>>}
    /\ base_dir = <<>>
    /\ environ = [LORA_TARGET_DIR |-> <<>>, LORAS_DIR |-> <<>>]
    /\ rpc = "idle"
    /\ scanned = FALSE
    /\ lora_candidates = {}
    /\ models_dirs = {}
    /\ makedirs_log = <<>>
    /\ result = NoResult

(***************************************************************************)
(*                        RUN-DIRECTORY SCAN                               *)
(***************************************************************************)

\* default of the parameter max_depth of scan_for_runs
max_depth == 6

\* number of directories placed below the end of the chain
NumNodes == 2

\* chain lengths: the top directory alone, and chains that put the
\* directories below them just inside, at, and just beyond the depth limit
ChainLens == {0, max_depth - 1, max_depth, max_depth + 1}

Top == 0
Missing == 0 - 1

SubId(j) == max_depth + 1 + j

\* A directory below the chain is described by what the scan can observe
\* of it: whether its name starts with "epoch", whether its name ends with
\* ".safetensors", whether os.listdir succeeds on it, and whether it holds
\* a regular file whose name ends with ".safetensors".
Kinds ==
    { [epoch |-> FALSE, st |-> FALSE, readable |-> TRUE,  stfile |-> FALSE],
      [epoch |-> FALSE, st |-> FALSE, readable |-> TRUE,  stfile |-> TRUE ],
      [epoch |-> FALSE, st |-> FALSE, readable |-> FALSE, stfile |-> FALSE],
      [epoch |-> TRUE,  st |-> FALSE, readable |-> TRUE,  stfile |-> FALSE],
      [epoch |-> TRUE,  st |-> FALSE, readable |-> TRUE,  stfile |-> TRUE ],
      [epoch |-> TRUE,  st |-> FALSE, readable |-> FALSE, stfile |-> TRUE ],
      [epoch |-> FALSE, st |-> TRUE,  readable |-> TRUE,  stfile |-> FALSE] }

PlainDir == [epoch |-> FALSE, st |-> FALSE, readable |-> TRUE, stfile |-> FALSE]

Anchor == chainLen

Dirs == (0..chainLen) \cup {SubId(j) : j \in 1..NumNodes}

KindOf(n) == IF n \in 0..chainLen THEN PlainDir ELSE sub[n - (max_depth + 1)].kind

ParentOf(n) ==
    IF n \in 1..chainLen THEN n - 1
    ELSE IF n = Top THEN Missing
    ELSE LET p == sub[n - (max_depth + 1)].parent
         IN IF p = 0 THEN Anchor ELSE SubId(p)

SubDirs(d) == {n \in Dirs : n # Top /\ ParentOf(n) = d}

\* os.path.isdir(path)
IsDir(n) == n \in Dirs

\* One entry of a directory listing: a sub-directory (id is its node) or
\* the regular file (id = Missing).  The regular file of the model is named
\* like "epoch3.safetensors": it has the prefix and the suffix, but it is
\* no directory.
DirEntry(n) == [id |-> n, isdir |-> TRUE, epoch |-> KindOf(n).epoch, st |-> KindOf(n).st]
FileEntry == [id |-> Missing, isdir |-> FALSE, epoch |-> TRUE, st |-> TRUE]

\* os.listdir(d) in the order `ord`, a permutation of 1..NumNodes in which j
\* stands for the directory SubId(j).  A directory of the chain lists its
\* one chain child; the regular file, which the scan loop skips, is listed
\* first.  ok = FALSE stands for the exception os.listdir raises on an
\* unreadable directory.
ListDir(d, ord) ==
    IF ~KindOf(d).readable THEN [ok |-> FALSE, entries |-> <<>>]
    ELSE LET chainChild == IF d \in 0..(chainLen - 1) THEN <<DirEntry(d + 1)>> ELSE <<>>
             file == IF KindOf(d).stfile THEN <<FileEntry>> ELSE <<>>
             present(k) == ParentOf(SubId(k)) = d
             picked == SelectSeq(ord, present)
         IN [ok |-> TRUE,
             entries |-> file \o chainChild \o [i \in 1..Len(picked) |-> DirEntry(SubId(picked[i]))]]

StartsWithEpoch(entry) == entry.epoch
EndsWithSafetensors(entry) == entry.st

\* `if depth > max_depth: return`
DepthExceededEarly(depth) == depth >= max_depth
DepthExceeded(depth) == depth > max_depth

\* `run_dir_path = root  # parent of epoch folder`
RunDirPathIsEpochFolder(root, full_path) == full_path
RunDirPath(root, full_path) == root

\* A search root may be spelled with a trailing "/" (SEARCH_ROOTS is split
\* on blanks and used as written).  The path of directory n is n; the same
\* path with a trailing "/" is n + SlashBase.  os.path.join(root, entry) is
\* spelled without the "/" in either case, so only a root has two spellings.
SlashBase == 100
WithSlash(n) == n + SlashBase

\* the directory a path designates
NodeOf(p) == IF p >= SlashBase THEN p - SlashBase ELSE p

\* the append without the membership test
AppendAlways(found, p) == Append(found, p)

\* `if run_dir_path not in found_runs: found_runs.append(run_dir_path)`
AppendIfAbsent(found, p) == IF p \in Range(found) THEN found ELSE Append(found, p)

\* the inner loop over files_inside, with its try/except around os.listdir
AnySafetensorsInside(full_path, ord) ==
    LET l == ListDir(full_path, ord)
        files_inside == IF l.ok THEN l.entries ELSE <<>>
    IN \E i \in 1..Len(files_inside) : EndsWithSafetensors(files_inside[i])

RECURSIVE scan_for_runs(_, _, _, _)
RECURSIVE scan_entries(_, _, _, _, _)

\* scan_for_runs(root, depth): the value of found_runs after the call
scan_for_runs(found, root, depth, ord) ==
    IF DepthExceeded(depth) THEN found
    ELSE LET l == ListDir(NodeOf(root), ord)
         IN IF ~l.ok THEN found
            ELSE scan_entries(found, root, depth, l.entries, ord)

\* the loop `for entry in entries`
scan_entries(found, root, depth, entries, ord) ==
    IF entries = <<>> THEN found
    ELSE LET entry == Head(entries)
             full_path == entry.id
             f1 == IF entry.isdir /\ StartsWithEpoch(entry)
                      /\ AnySafetensorsInside(full_path, ord)
                   THEN AppendIfAbsent(found, RunDirPath(root, full_path))
                   ELSE found
             f2 == IF entry.isdir
                   THEN scan_for_runs(f1, full_path, depth + 1, ord)
                   ELSE f1
         IN scan_entries(f2, root, depth, Tail(entries), ord)

SubTrees ==
    {s \in [1..NumNodes -> [parent : 0..(NumNodes - 1), kind : Kinds]] :
        \A j \in 1..NumNodes : s[j].parent < j}

RootLists(len) ==
    {<<Top>>, <<len, Top>>, <<Missing, Top>>}

ScanInit ==
    /\ chainLen \in ChainLens
    /\ sub \in SubTrees
    /\ search_roots \in RootLists(chainLen)
    /\ ri = 1
    /\ found_runs = <<>>
    /\ ResolveIdle
    /\ ConfigIdle
    /\ MaskIdle
    /\ CredIdle
    /\ EpochIdle
    /\ RetryIdle
    /\ CleanupIdle
    /\ BatchIdle

\* one iteration of `for root in search_roots: if os.path.isdir(root): scan_for_runs(root)`
ScanRoot ==
    /\ ri <= Len(search_roots)
    /\ \E ord \in Orderings(1..NumNodes) :
         found_runs' = IF IsDir(NodeOf(search_roots[ri]))
                       THEN scan_for_runs(found_runs, search_roots[ri], 0, ord)
                       ELSE found_runs
    /\ ri' = ri + 1
    /\ UNCHANGED <<chainLen, sub, search_roots>>
    /\ UNCHANGED <<resolveVars, configVars, maskVars, credVars, epochVars, retryVars, cleanupVars, batchVars>>

ScanNext == ScanRoot

ScanSpec == ScanInit /\ [][ScanNext]_vars

ScanDone == ri > Len(search_roots)

\* search roots that overlap: a directory and its ancestor, in one spelling;
\* a directory spelled with a trailing "/" and its ancestor; the same
\* directory in both spellings
SlashRootLists(len) ==
    {<<len, Top>>, <<WithSlash(len), Top>>, <<Top, WithSlash(Top)>>}

ScanSlashInit ==
    /\ chainLen \in ChainLens
    /\ sub \in SubTrees
    /\ search_roots \in SlashRootLists(chainLen)
    /\ ri = 1
    /\ found_runs = <<>>
    /\ ResolveIdle
    /\ ConfigIdle
    /\ MaskIdle
    /\ CredIdle
    /\ EpochIdle
    /\ RetryIdle
    /\ CleanupIdle
    /\ BatchIdle

ScanSlashSpec == ScanSlashInit /\ [][ScanNext]_vars

(* ---- what the claims about the scan speak of ---- *)

RECURSIVE DepthOf(_)
\* depth of a directory below the top directory
DepthOf(n) == IF n = Top THEN 0 ELSE 1 + DepthOf(ParentOf(n))

RECURSIVE IsAncestorOrSelf(_, _)
IsAncestorOrSelf(r, d) ==
    \/ d = r
    \/ d # Top /\ d # Missing /\ IsAncestorOrSelf(r, ParentOf(d))

\* d lies in the tree below the search root r and every directory on the
\* way from r down to d's parent can be listed (an unreadable directory
\* lists as empty)
ReachedFrom(r, d) ==
    /\ IsDir(r)
    /\ IsAncestorOrSelf(r, d)
    /\ \A x \in Dirs :
         (x # d /\ IsAncestorOrSelf(r, x) /\ IsAncestorOrSelf(x, d)) => KindOf(x).readable

RelDepth(r, d) == DepthOf(d) - DepthOf(r)

\* the immediate child directories of D named epoch* whose listing shows
\* at least one entry named *.safetensors
QualifyingEpochFolders(D) ==
    {E \in SubDirs(D) :
        /\ KindOf(D).readable
        /\ KindOf(E).epoch
        /\ KindOf(E).readable
        /\ (KindOf(E).stfile \/ \E c \in SubDirs(E) : KindOf(c).st)}

\* C1: when the scan has run over all search roots, found_runs holds
\* exactly the directories D reached within the depth limit (depth <=
\* max_depth below some search root) that have at least one immediate child
\* directory named epoch* which lists at least one entry named
\* *.safetensors ("file" is what os.listdir returns for the epoch folder:
\* the scan tests the names only); what is recorded is D itself, the parent
\* of the epoch folder; and this holds for every order in which the
\* directories are listed.
C1_ScanReturnsRunParents ==
    ScanDone =>
        Range(found_runs) =
            {D \in Dirs :
                /\ QualifyingEpochFolders(D) # {}
                /\ \E r \in Range(search_roots) :
                     ReachedFrom(r, D) /\ RelDepth(r, D) <= max_depth}

\* a run directory found below a chain, with two sibling children of which
\* only one is a qualifying epoch folder
C1_Witness ==
    /\ ScanDone
    /\ chainLen > 0
    /\ Anchor \in Range(found_runs)
    /\ Cardinality(SubDirs(Anchor)) = 2
    /\ \E E \in SubDirs(Anchor) : E \notin QualifyingEpochFolders(Anchor)

\* the depth claim, with the limit `lim` on the depth of the epoch folder
EpochFolderDepthLimit(lim) ==
    ScanDone =>
        /\ \A D \in Dirs : \A E \in QualifyingEpochFolders(D) :
             (\E r \in Range(search_roots) : ReachedFrom(r, E) /\ RelDepth(r, E) <= lim)
                 => D \in Range(found_runs)
        /\ \A D \in Range(found_runs) :
             \E E \in QualifyingEpochFolders(D) : \E r \in Range(search_roots) :
                 ReachedFrom(r, E) /\ RelDepth(r, E) <= lim

\* C2 as claimed: the scan returns the parent of every qualifying epoch
\* folder at depth <= 6 below a search root and returns no directory on
\* account of an epoch folder at depth > 6.
C2_AsClaimed == EpochFolderDepthLimit(max_depth)

\* C2 as amended: the limit of 6 applies to the directory that is listed,
\* so the scan returns the parent of every qualifying epoch folder at depth
\* <= 7 below a search root (its parent, the run directory, at depth <= 6)
\* and returns no directory on account of an epoch folder at depth > 7.
C2_EpochFoldersUpToDepth7 == EpochFolderDepthLimit(max_depth + 1)

\* a run directory at depth 6 below the only search root is returned on
\* account of its epoch folder at depth 7
C2_Witness ==
    /\ ScanDone
    /\ search_roots = <<Top>>
    /\ chainLen = max_depth
    /\ Anchor \in Range(found_runs)

\* whether list `old` is an initial part of list `new`
ExtendedBy(old, new) ==
    Len(old) <= Len(new) /\ \A i \in 1..Len(old) : new[i] = old[i]

\* C26 as claimed: the list returned by the scan never contains the same
\* directory twice, also when the search roots overlap.
C26_AsClaimed ==
    \A i \in 1..Len(found_runs) : \A j \in 1..Len(found_runs) :
        NodeOf(found_runs[i]) = NodeOf(found_runs[j]) => i = j

\* C26 as amended: the list never contains the same path twice, also when
\* the search roots overlap, and every scan of a root only appends to it, so
\* the entries stay in the order of their first discovery; a directory that
\* is a search root spelled with a trailing "/" and is found again from
\* another root is listed once under each spelling.
C26_NoPathTwiceInDiscoveryOrder ==
    [][/\ \A i \in 1..Len(found_runs') : \A j \in 1..Len(found_runs') :
             found_runs'[i] = found_runs'[j] => i = j
       /\ ExtendedBy(found_runs, found_runs')]_vars

\* the scan of a root and then of its ancestor both came upon the same two
\* run directories, each of which is listed once, in the order in which the
\* first scan found them
C26_Witness ==
    /\ ScanDone
    /\ search_roots = <<chainLen, Top>>
    /\ chainLen > 0
    /\ Len(found_runs) = 2
    /\ found_runs[1] = Anchor

(***************************************************************************)
(*                        DESTINATION RESOLVER                             *)
(***************************************************************************)

\* An absolute path is the sequence of its segments; "/" is <<>>.

\* the directory names of the modelled filesystems
Segs == {"w", "proj", "Models", "models", "loras", "lora", "my_lora",
         "a", "bb", "d", ".git", "workspace", "out"}

\* str.lower()
Lower(seg) == IF seg = "Models" THEN "models" ELSE seg

\* len(seg)
SegLen(seg) ==
    CASE seg \in {"w", "a", "d"} -> 1
      [] seg = "bb" -> 2
      [] seg = "out" -> 3
      [] seg \in {"proj", "lora", ".git"} -> 4
      [] seg = "loras" -> 5
      [] seg \in {"Models", "models"} -> 6
      [] seg = "my_lora" -> 7
      [] seg = "workspace" -> 9

\* len(path) of the absolute path string: "/" before every segment
PathLen(path) ==
    LET RECURSIVE sum(_)
        sum(i) == IF i = 0 THEN 0 ELSE sum(i - 1) + 1 + SegLen(path[i])
    IN sum(Len(path))

\* path.count(os.sep)
SepCount(path) == Len(path)

\* os.path.dirname; the parent of "/" is "/"
Dirname(path) == IF path = <<>> THEN <<>> ELSE SubSeq(path, 1, Len(path) - 1)

\* name.startswith(".")
StartsWithDot(seg) == seg = ".git"

ignore_dirs == {".git", "node_modules", "venv", ".venv", "__pycache__"}

\* is_lora_like(name): ("lora" in low) or ("lycoris" in low)
is_lora_like(name) == Lower(name) \in {"loras", "lora", "my_lora"}

\* score_path without the two bonuses for "models"
score_path_LeafOnly(path) ==
    LET leaf == IF path = <<>> THEN "" ELSE Lower(path[Len(path)])
    IN IF leaf \in {"loras", "lora", "lycoris"} THEN 100
       ELSE IF leaf # "" /\ is_lora_like(leaf) THEN 70 ELSE 0

score_path(path) ==
    LET parts == [i \in 1..Len(path) |-> Lower(path[i])]
        leaf == IF parts = <<>> THEN "" ELSE parts[Len(parts)]
    IN (IF leaf \in {"loras", "lora", "lycoris"} THEN 100
        ELSE IF leaf # "" /\ is_lora_like(leaf) THEN 70 ELSE 0)
       + (IF "models" \in Range(parts) THEN 40 ELSE 0)
       + (IF Len(parts) >= 2 /\ parts[Len(parts) - 1] = "models" THEN 30 ELSE 0)

\* number of iterations of the loop that builds the search roots
RootLevels == 7

\* the depth beyond which os.walk is pruned
WalkDepth == 4

RECURSIVE RootsFrom(_, _, _)
\* the loop `for _ in range(7)` over cur = base_dir and its parents
RootsFrom(roots, cur, n) ==
    IF n = 0 THEN roots
    ELSE LET r1 == IF cur \in Range(roots) THEN roots ELSE Append(roots, cur)
         IN IF Dirname(cur) = cur THEN r1 ELSE RootsFrom(r1, Dirname(cur), n - 1)

\* roots, with "/workspace" appended when it is a directory and not a root yet
SearchRoots(fsys, base) ==
    LET r == RootsFrom(<<>>, base, RootLevels)
    IN IF <<"workspace">> \in fsys /\ <<"workspace">> \notin Range(r)
       THEN Append(r, <<"workspace">>) ELSE r

\* the names os.walk lists as dirnames of walk_root
ChildNames(fsys, walk_root) ==
    {q[Len(q)] : q \in {x \in fsys : Len(x) = Len(walk_root) + 1 /\ Dirname(x) = walk_root}}

\* the pruning applied one level later
DepthPrunedLater(depth) == depth > WalkDepth + 1

\* `if depth > 4: dirnames[:] = []; continue`
DepthPruned(depth) == depth > WalkDepth

\* the filter that keeps every name
KeptAny(d) == TRUE

\* `d not in ignore_dirs and not d.startswith(".")`
Kept(d) == d \notin ignore_dirs /\ ~StartsWithDot(d)

RECURSIVE Walk(_, _, _)
\* the paths full_path the body of `for walk_root, dirnames, _ in os.walk(root)`
\* reaches at walk_root and below; depth is the depth of walk_root below root
Walk(fsys, walk_root, depth) ==
    IF DepthPruned(depth) THEN {}
    ELSE LET dirnames == {d \in ChildNames(fsys, walk_root) : Kept(d)}
         IN {Append(walk_root, d) : d \in dirnames}
            \cup UNION {Walk(fsys, Append(walk_root, d), depth + 1) : d \in dirnames}

\* every full_path reached from the search roots that are directories
Walked(fsys, base) ==
    LET roots == SearchRoots(fsys, base)
    IN UNION {Walk(fsys, roots[i], 0) : i \in {k \in 1..Len(roots) : roots[k] \in fsys}}

\* set(models_dirs): `if d_low == "models"`
ModelsDirs(walked) == {q \in walked : Lower(q[Len(q)]) = "models"}

\* set(lora_candidates): `if is_lora_like(d_low)`
LoraCandidates(walked) == {q \in walked : is_lora_like(Lower(q[Len(q)]))}

\* whether key k1 sorts strictly before k2, keys being pairs of integers
KeyLess(k1, k2) == k1[1] < k2[1] \/ (k1[1] = k2[1] /\ k1[2] < k2[2])

\* the key with the length not negated
LoraKeyLongest(q) == <<score_path(q), PathLen(q)>>
\* key=lambda p: (score_path(p), -len(p))
LoraKey(q) == <<score_path(q), 0 - PathLen(q)>>

\* sorted(set(lora_candidates), key=..., reverse=True)[0]: the candidates that
\* can come first; candidates with equal keys come in the order of the set
BestLora(cands) == {q \in cands : \A o \in cands : ~KeyLess(LoraKey(q), LoraKey(o))}

\* the key that prefers the fewest separators
ModelsKeyShallowest(q) == <<SepCount(q), PathLen(q)>>
\* key=lambda p: (-(p.count(os.sep)), len(p))
ModelsKey(q) == <<0 - SepCount(q), PathLen(q)>>

\* sorted(set(models_dirs), key=...)[0]
BestModels(mds) == {q \in mds : \A o \in mds : ~KeyLess(ModelsKey(o), ModelsKey(q))}

\* the prefixes of a path: what os.makedirs creates
Prefixes(path) == {SubSeq(path, 1, i) : i \in 0..Len(path)}

\* os.makedirs(target, exist_ok=True); `allowed` is whether the system lets
\* the directory be created.  An existing directory raises nothing.
Makedirs(fsys, target, allowed) ==
    IF target \in fsys THEN [ok |-> TRUE, fs |-> fsys]
    ELSE IF allowed THEN [ok |-> TRUE, fs |-> fsys \cup Prefixes(target)]
    ELSE [ok |-> FALSE, fs |-> fsys]

\* os.getenv("LORA_TARGET_DIR") or os.getenv("LORAS_DIR"); <<>> is unset or
\* empty, <<p>> the absolute path p
GetOverride(env) ==
    IF env.LORA_TARGET_DIR # <<>> THEN env.LORA_TARGET_DIR ELSE env.LORAS_DIR

Outcome(path, status, fsys, log, didScan, lc, md) ==
    [path |-> path, status |-> status, fs |-> fsys, log |-> log,
     scanned |-> didScan, lora_candidates |-> lc, models_dirs |-> md]

\* the override returned without being created
ResolveOverrideWithoutCreating(fsys, target, allowed) ==
    Outcome(target, IF target \in fsys \/ allowed THEN "found_existing" ELSE "error", fsys,
            <<[target |-> target, ok |-> target \in fsys \/ allowed]>>, FALSE, {}, {})

\* step 1, the override
ResolveOverride(fsys, target, allowed) ==
    LET m == Makedirs(fsys, target, allowed)
    IN Outcome(target, IF m.ok THEN "found_existing" ELSE "error", m.fs,
               <<[target |-> target, ok |-> m.ok]>>, FALSE, {}, {})

\* the fallback under a different name
FallbackPathLorasOnly(base) == base \o <<"loras">>
\* os.path.join(base_dir, "models", "loras")
FallbackPath(base) == base \o <<"models", "loras">>

\* step 3 of the code, the fallback
ResolveFallback(fsys, base, allowed, log, lc, md) ==
    LET fallback == FallbackPath(base)
        m == Makedirs(fsys, fallback, allowed)
    IN Outcome(fallback, IF m.ok THEN "created_fallback" ELSE "error", m.fs,
               Append(log, [target |-> fallback, ok |-> m.ok]), TRUE, lc, md)

\* a failed creation beneath "models" reported as an error
ResolveInModelsOrError(fsys, base, best_models, allowed1, allowed2, lc, md) ==
    LET target == Append(best_models, "loras")
        m == Makedirs(fsys, target, allowed1)
    IN Outcome(target, IF m.ok THEN "created_in_models" ELSE "error", m.fs,
               <<[target |-> target, ok |-> m.ok]>>, TRUE, lc, md)

\* step 2 of the code: create loras beneath the chosen "models" directory;
\* `except Exception: pass` goes on to the fallback
ResolveInModels(fsys, base, best_models, allowed1, allowed2, lc, md) ==
    LET target == Append(best_models, "loras")
        m == Makedirs(fsys, target, allowed1)
        log == <<[target |-> target, ok |-> m.ok]>>
    IN IF m.ok
       THEN Outcome(target, "created_in_models", m.fs, log, TRUE, lc, md)
       ELSE ResolveFallback(m.fs, base, allowed2, log, lc, md)

\* steps 1) to 3) of the code, after the walk has filled lc =
\* set(lora_candidates) and md = set(models_dirs)
ResolveScanned(fsys, base, lc, md, allowed1, allowed2) ==
    IF lc # {}
    THEN {Outcome(best, "found_existing", fsys, <<>>, TRUE, lc, md) : best \in BestLora(lc)}
    ELSE IF md # {}
    THEN {ResolveInModels(fsys, base, bm, allowed1, allowed2, lc, md) : bm \in BestModels(md)}
    ELSE {ResolveFallback(fsys, base, allowed1, <<>>, lc, md)}

\* resolve_lora_target_dir(base): the outcomes the call can have, allowed1
\* and allowed2 being what the system answers to its first and second
\* os.makedirs
resolve_lora_target_dir(fsys, base, env, allowed1, allowed2) ==
    IF GetOverride(env) # <<>>
    THEN {ResolveOverride(fsys, GetOverride(env)[1], allowed1)}
    ELSE UNION {ResolveScanned(fsys, base, LoraCandidates(walked), ModelsDirs(walked),
                               allowed1, allowed2) :
                    walked \in {Walked(fsys, base)}}

\* the starting directories
BaseDirs == {<<"w", "proj">>, <<"w", "Models">>, <<"models", "proj">>}

\* directories that may exist below the starting directory
RelCatalogue ==
    { <<"loras">>, <<"models">>, <<"models", "loras">>, <<"a", "models">>,
      <<"bb", "models">>, <<"my_lora">>, <<".git", "lora">>,
      <<"d", "d", "d", "d", "lora">>, <<"d", "d", "d", "d", "d", "lora">> }

\* directories that may exist elsewhere
AbsCatalogue == { <<"w", "lora">>, <<"workspace">> }

Closure(paths) == UNION {Prefixes(q) : q \in paths}

Environs ==
    { [LORA_TARGET_DIR |-> <<>>, LORAS_DIR |-> <<>>],
      [LORA_TARGET_DIR |-> << <<"w", "out">> >>, LORAS_DIR |-> <<>>],
      [LORA_TARGET_DIR |-> <<>>, LORAS_DIR |-> << <<"w", "proj", "loras">> >>],
      [LORA_TARGET_DIR |-> << <<"w", "out">> >>, LORAS_DIR |-> << <<"w", "proj", "loras">> >>] }

ScanIdle ==
    /\ chainLen = 0
    /\ sub = <<>>
    /\ search_roots = <<>>
    /\ ri = 1
    /\ found_runs = <<>>

ResolveInit ==
    /\ base_dir \in BaseDirs
    /\ environ \in Environs
    /\ fs \in {Closure({base_dir} \cup {base_dir \o r : r \in R} \cup A) :
                  R \in SUBSET (IF GetOverride(environ) = <<>> THEN RelCatalogue
                                ELSE {<<"loras">>}),
                  A \in SUBSET AbsCatalogue}
    /\ rpc = "call"
    /\ scanned = FALSE
    /\ lora_candidates = {}
    /\ models_dirs = {}
    /\ makedirs_log = <<>>
    /\ result = NoResult
    /\ ScanIdle
    /\ ConfigIdle
    /\ MaskIdle
    /\ CredIdle
    /\ EpochIdle
    /\ RetryIdle
    /\ CleanupIdle
    /\ BatchIdle

\* target_dir, target_status = resolve_lora_target_dir(os.getcwd())
Resolve ==
    /\ rpc = "call"
    /\ \E allowed1 \in BOOLEAN, allowed2 \in BOOLEAN :
         \E out \in resolve_lora_target_dir(fs, base_dir, environ, allowed1, allowed2) :
            /\ result' = [path |-> out.path, status |-> out.status]
            /\ fs' = out.fs
            /\ makedirs_log' = out.log
            /\ scanned' = out.scanned
            /\ lora_candidates' = out.lora_candidates
            /\ models_dirs' = out.models_dirs
    /\ rpc' = "done"
    /\ UNCHANGED <<base_dir, environ>>
    /\ UNCHANGED <<scanVars, configVars, maskVars, credVars, epochVars, retryVars, cleanupVars, batchVars>>

ResolveNext == Resolve

ResolveSpec == ResolveInit /\ [][ResolveNext]_vars

ResolveDone == rpc = "done"

(* ---- what the claims about the resolver speak of ---- *)

StartLoras == base_dir \o <<"loras">>
StartModelsLoras == base_dir \o <<"models", "loras">>

OverrideSet == environ.LORA_TARGET_DIR # <<>> \/ environ.LORAS_DIR # <<>>

LastSeg(path) == path[Len(path)]

\* C3 as claimed: for every starting directory, when the only lora-like
\* directories the scan collects are <start>/loras and <start>/models/loras,
\* the resolver returns <start>/models/loras with status found_existing.
C3_AsClaimed ==
    (ResolveDone /\ scanned /\ lora_candidates = {StartLoras, StartModelsLoras})
        => result = [path |-> StartModelsLoras, status |-> "found_existing"]

\* C3 as amended: the same for every starting directory whose own name
\* (final path segment) is not "models" in any letter case; a starting
\* directory named "models" gives <start>/loras the same score of 170 and
\* the shorter path wins.
C3_ModelsLorasPreferred ==
    (/\ ResolveDone /\ scanned
     /\ lora_candidates = {StartLoras, StartModelsLoras}
     /\ Lower(LastSeg(base_dir)) # "models")
        => result = [path |-> StartModelsLoras, status |-> "found_existing"]

\* both directories exist, nothing else is lora-like in scope, and the
\* resolver has answered <start>/models/loras
C3_Witness ==
    /\ ResolveDone /\ scanned
    /\ lora_candidates = {StartLoras, StartModelsLoras}
    /\ Lower(LastSeg(base_dir)) # "models"
    /\ result.path = StartModelsLoras

\* C4: when the scan collects at least one lora-like directory, the path
\* returned is a collected candidate of maximum score and, among the
\* candidates of that score, one of the shortest paths.
C4_BestCandidate ==
    (ResolveDone /\ scanned /\ lora_candidates # {}) =>
        /\ result.path \in lora_candidates
        /\ \A q \in lora_candidates : score_path(q) <= score_path(result.path)
        /\ \A q \in lora_candidates :
             score_path(q) = score_path(result.path) => PathLen(result.path) <= PathLen(q)

\* a longer candidate of the same score and a candidate of lower score were
\* both passed over
C4_Witness ==
    /\ ResolveDone /\ scanned
    /\ \E q \in lora_candidates :
         score_path(q) = score_path(result.path) /\ PathLen(q) > PathLen(result.path)
    /\ \E q \in lora_candidates : score_path(q) < score_path(result.path)

NothingFound == ResolveDone /\ ~OverrideSet /\ lora_candidates = {} /\ models_dirs = {}

\* C5 as claimed: with no override and nothing found by the scan, the
\* resolver creates <start>/models/loras and returns it with status
\* created_fallback.
C5_AsClaimed ==
    NothingFound =>
        /\ result = [path |-> StartModelsLoras, status |-> "created_fallback"]
        /\ StartModelsLoras \in fs

\* C5 as amended: with no override and nothing found by the scan, the
\* resolver makes one attempt to create <start>/models/loras and returns
\* that path: with status created_fallback, the directory then existing, if
\* the creation succeeds, and with status error if it fails.
C5_FallbackCreatedOrError ==
    NothingFound =>
        /\ result.path = StartModelsLoras
        /\ Len(makedirs_log) = 1
        /\ makedirs_log[1].target = StartModelsLoras
        /\ makedirs_log[1].ok =>
             (result.status = "created_fallback" /\ StartModelsLoras \in fs)
        /\ ~makedirs_log[1].ok => result.status = "error"

C5_Witness ==
    /\ NothingFound
    /\ result = [path |-> StartModelsLoras, status |-> "created_fallback"]
    /\ StartModelsLoras \in fs

OnlyModelsFound == ResolveDone /\ scanned /\ lora_candidates = {} /\ models_dirs # {}

\* the "models" directories with the most separators and, among these, the
\* shortest path
DeepestShortestModels ==
    {m \in models_dirs :
        /\ \A o \in models_dirs : SepCount(o) <= SepCount(m)
        /\ \A o \in models_dirs : SepCount(o) = SepCount(m) => PathLen(m) <= PathLen(o)}

\* C6 as claimed: when the scan finds no lora-like directory but some
\* "models" directory, the resolver takes the one with the most separators
\* (shortest path on ties), creates loras beneath it and returns that with
\* status created_in_models.
C6_AsClaimed ==
    OnlyModelsFound =>
        \E m \in DeepestShortestModels :
            /\ result = [path |-> Append(m, "loras"), status |-> "created_in_models"]
            /\ Append(m, "loras") \in fs

\* C6 as amended: ... the resolver takes that "models" directory and
\* attempts to create loras beneath it; if the creation succeeds it returns
\* that subdirectory with status created_in_models; if it fails it goes on
\* to the fallback and returns <start>/models/loras with status
\* created_fallback, or error when that creation fails too.
C6_CreatedInDeepestModels ==
    OnlyModelsFound =>
        \E m \in DeepestShortestModels :
            /\ Len(makedirs_log) >= 1
            /\ makedirs_log[1].target = Append(m, "loras")
            /\ makedirs_log[1].ok =>
                 /\ result = [path |-> Append(m, "loras"), status |-> "created_in_models"]
                 /\ Append(m, "loras") \in fs
            /\ ~makedirs_log[1].ok =>
                 /\ result.path = StartModelsLoras
                 /\ result.status \in {"created_fallback", "error"}

\* a shallower "models" directory and a longer one of the same depth were
\* both passed over
C6_Witness ==
    /\ OnlyModelsFound
    /\ result.status = "created_in_models"
    /\ \E o \in models_dirs : SepCount(o) < SepCount(Dirname(result.path))
    /\ \E o \in models_dirs :
         /\ SepCount(o) = SepCount(Dirname(result.path))
         /\ PathLen(o) > PathLen(Dirname(result.path))

\* the value of the override: LORA_TARGET_DIR when non-empty, else LORAS_DIR
OverrideDir ==
    IF environ.LORA_TARGET_DIR # <<>> THEN environ.LORA_TARGET_DIR[1] ELSE environ.LORAS_DIR[1]

\* C7 as claimed: with an override set, the resolver returns that directory
\* without scanning, creates it if absent, and the status is always
\* found_existing.
C7_AsClaimed ==
    (ResolveDone /\ OverrideSet) =>
        /\ ~scanned
        /\ result = [path |-> OverrideDir, status |-> "found_existing"]
        /\ OverrideDir \in fs

\* C7 as amended: with an override set, the resolver returns that directory
\* without scanning after one attempt to create it; the status is
\* found_existing when the directory exists or is created, and error when
\* its creation fails.
C7_OverrideFoundOrError ==
    (ResolveDone /\ OverrideSet) =>
        /\ ~scanned
        /\ result.path = OverrideDir
        /\ Len(makedirs_log) = 1
        /\ makedirs_log[1].target = OverrideDir
        /\ makedirs_log[1].ok => (result.status = "found_existing" /\ OverrideDir \in fs)
        /\ ~makedirs_log[1].ok => (result.status = "error" /\ OverrideDir \notin fs)

\* the override /w/out, which no initial filesystem holds, has been created
C7_Witness ==
    /\ ResolveDone /\ OverrideSet
    /\ OverrideDir = <<"w", "out">>
    /\ OverrideDir \in fs
    /\ result.status = "found_existing"

\* C8 as claimed: the status is error if and only if some directory
\* creation attempted during the call failed.
C8_AsClaimed ==
    ResolveDone =>
        (result.status = "error" <=> \E i \in 1..Len(makedirs_log) : ~makedirs_log[i].ok)

\* C8 as amended: the status is error if and only if the last directory
\* creation attempted during the call failed; a failed creation of loras
\* beneath the selected "models" directory is not reported as error: it is
\* followed by the attempt to create <start>/models/loras, whose outcome
\* decides.
C8_ErrorIffLastCreationFailed ==
    ResolveDone =>
        /\ result.status = "error" <=>
             (makedirs_log # <<>> /\ ~makedirs_log[Len(makedirs_log)].ok)
        /\ (OnlyModelsFound /\ ~makedirs_log[1].ok) =>
             /\ Len(makedirs_log) = 2
             /\ makedirs_log[2].target = StartModelsLoras
             /\ result.path = StartModelsLoras

\* both the creation beneath "models" and the fallback creation failed
C8_Witness ==
    /\ OnlyModelsFound
    /\ Len(makedirs_log) = 2
    /\ ~makedirs_log[1].ok
    /\ result.status = "error"

\* whether path r is path c or one of its ancestors
IsPrefix(r, c) == Len(r) <= Len(c) /\ SubSeq(c, 1, Len(r)) = r

\* the search roots of the call; the resolver creates no directory that is
\* a search root, so they are the same before and after it
RootsSearched == Range(SearchRoots(fs, base_dir))

\* every collected directory lies at most n levels below a search root,
\* the root being at level 0
CollectedWithinLevels(n) ==
    ResolveDone =>
        \A c \in lora_candidates \cup models_dirs :
            \E r \in RootsSearched : IsPrefix(r, c) /\ Len(c) - Len(r) <= n

\* C24 as claimed: the scan collects as a candidate (lora-like or "models")
\* only directories lying at most 4 levels below at least one search root.
C24_AsClaimed == CollectedWithinLevels(WalkDepth)

\* C24 as amended: the scan collects only directories lying at most 5 levels
\* below at least one search root; the pruning test `depth > 4` is applied to
\* the directory being listed, so the children of a directory at level 4 are
\* still collected.
C24_CollectedWithinFiveLevels == CollectedWithinLevels(WalkDepth + 1)

\* a lora-like directory 5 levels below the starting directory, and nearer
\* to no other search root, has been collected
C24_Witness ==
    /\ ResolveDone
    /\ \E c \in lora_candidates :
          /\ c = base_dir \o <<"d", "d", "d", "d", "lora">>
          /\ \A r \in RootsSearched : IsPrefix(r, c) => Len(c) - Len(r) >= WalkDepth + 1

\* ---- the resolver from starting directories in or beneath an ignored ----
\* ---- directory, and with candidates that tie                         ----

\* starting directories: an ordinary one, one named ".git", one beneath ".git"
WideBaseDirs == {<<"w", "proj">>, <<"w", ".git">>, <<".git", "proj">>}

\* directories that may exist below the starting directory: two lora-like
\* directories of equal score and equal path length, two "models"
\* directories of equal depth and equal path length
WideCatalogue ==
    { <<"a", "lora">>, <<"d", "lora">>, <<"a", "models">>, <<"d", "models">>,
      <<".git", "lora">>, <<"my_lora">> }

ResolveWideInit ==
    /\ base_dir \in WideBaseDirs
    /\ environ \in Environs
    /\ fs \in {Closure({base_dir} \cup {base_dir \o r : r \in R} \cup A) :
                  R \in SUBSET (IF GetOverride(environ) = <<>> THEN WideCatalogue
                                ELSE {<<"loras">>}),
                  A \in SUBSET AbsCatalogue}
    /\ rpc = "call"
    /\ scanned = FALSE
    /\ lora_candidates = {}
    /\ models_dirs = {}
    /\ makedirs_log = <<>>
    /\ result = NoResult
    /\ ScanIdle
    /\ ConfigIdle
    /\ MaskIdle
    /\ CredIdle
    /\ EpochIdle
    /\ RetryIdle
    /\ CleanupIdle
    /\ BatchIdle

ResolveWideSpec == ResolveWideInit /\ [][ResolveNext]_vars

\* a name the claim excludes: .git, node_modules, venv, .venv, __pycache__
\* or, of the names of the model, one that begins with a dot
Excluded(seg) ==
    \/ seg \in {".git", "node_modules", "venv", ".venv", "__pycache__"}
    \/ seg \in {s \in Segs : s = ".git"}

\* the directories the scan collected, and the one it returned
CollectedOrReturned == lora_candidates \cup models_dirs \cup {result.path}

\* C25 as claimed: for every starting directory, no directory the scan
\* collects or returns is named .git, node_modules, venv, .venv or
\* __pycache__, is dot-prefixed, or lies beneath such a directory.
C25_AsClaimed ==
    (ResolveDone /\ scanned) =>
        \A c \in CollectedOrReturned : \A i \in 1..Len(c) : ~Excluded(c[i])

\* C25 as amended: every directory the scan collects or returns is reached
\* from some search root through directories none of which is named .git,
\* node_modules, venv, .venv or __pycache__ or is dot-prefixed; the names on
\* the path of the search root itself (the starting directory and its
\* ancestors) are not filtered.
C25_ExcludedBelowRootsSkipped ==
    (ResolveDone /\ scanned) =>
        \A c \in CollectedOrReturned :
            \E r \in RootsSearched :
                IsPrefix(r, c) /\ \A i \in (Len(r) + 1)..Len(c) : ~Excluded(c[i])

\* <start>/.git/lora exists and the scan, which collected other lora-like
\* directories, did not collect it
C25_Witness ==
    /\ ResolveDone /\ scanned
    /\ base_dir \o <<".git", "lora">> \in fs
    /\ lora_candidates # {}
    /\ base_dir \o <<".git", "lora">> \notin lora_candidates

\* C30 as claimed: for a fixed filesystem, starting directory and
\* environment, any two invocations of the resolver return the same path and
\* the same status, whatever the order in which the candidates are held,
\* also when several candidates tie on score and on path length.
C30_AsClaimed ==
    [][rpc = "call" =>
          \A allowed1 \in BOOLEAN, allowed2 \in BOOLEAN :
             \A o1 \in resolve_lora_target_dir(fs, base_dir, environ, allowed1, allowed2) :
                \A o2 \in resolve_lora_target_dir(fs, base_dir, environ, allowed1, allowed2) :
                   o1.path = o2.path /\ o1.status = o2.status]_vars

-----------------------------------------------------------------------------
\* Configuration aggregator: collect_training_info(run_dir).
\*
\* A path is its sequence of segments, as in the resolver; a search path may
\* end in "..", as os.path.join(run_dir, "..") does.  A value is the sequence
\* of its characters.  A line of a file is a section header or a key = value
\* line, already split on its first "=".

\* the number of lines of a.toml is at most MaxLines, of b.toml at most
\* MaxShortLines
MaxLines == 3

MaxShortLines == 1

TomlNames == {"a.toml", "b.toml"}

MaxLinesOf(name) == IF name = "a.toml" THEN MaxLines ELSE MaxShortLines

\* a file of the run directory that is not a .toml file
OtherName == "config.txt"

\* f.endswith(".toml")
EndsWithToml(f) == f \in TomlNames

interesting_keys ==
    {"network_dim", "network_alpha", "rank", "alpha", "network_module", "network_type",
     "learning_rate", "lr", "unet_lr", "text_encoder_lr",
     "max_train_epochs", "max_train_steps", "epochs",
     "train_batch_size", "batch_size", "resolution", "width", "height",
     "optimizer_type", "optimizer", "lr_scheduler", "scheduler", "seed",
     "pretrained_model_name_or_path", "model_path", "base_model",
     "output_dir", "output_name", "train_data_dir", "dataset_config",
     "caption_extension", "mixed_precision", "gradient_checkpointing",
     "save_every_n_epochs", "save_model_as"}

SectionLine(name) == [kind |-> "section", name |-> name, raw |-> <<>>]

KVLine(key, raw) == [kind |-> "kv", name |-> key, raw |-> raw]

\* the lines a file is made of: a header, an allow-listed key with a plain
\* and with a quoted value, and another key with an inline comment
Lines ==
    {SectionLine("opt"),
     KVLine("learning_rate", <<"1">>),
     KVLine("learning_rate", <<" ", "\"", "2", "\"">>),
     KVLine("foo", <<"3", " ", "#", "x">>)}

Contents(name) == UNION {[1..n -> Lines] : n \in 0..MaxLinesOf(name)}

\* fails_after of a file that is read to its end
NoError == 0 - 1

\* a file on disk: the directory it lies in, its lines, and the number of
\* lines the read loop yields before reading raises (0: open itself fails,
\* or the first chunk does not decode)
FilesOnDisk(name, dirs) ==
    {[dir |-> d, lines |-> c, fails_after |-> NoError] : d \in dirs, c \in Contents(name)}

\* the same files, and each of them with a read error after any of its lines
FailingFilesOnDisk(name, dirs) ==
    UNION {{[dir |-> d, lines |-> c, fails_after |-> n] : n \in {NoError} \cup 0..Len(c)} :
             d \in dirs, c \in Contents(name)}

Whitespace == {" "}

RECURSIVE LStrip(_, _)
LStrip(s, chars) ==
    IF s # <<>> /\ Head(s) \in chars THEN LStrip(Tail(s), chars) ELSE s

RECURSIVE RStrip(_, _)
RStrip(s, chars) ==
    IF s # <<>> /\ s[Len(s)] \in chars THEN RStrip(SubSeq(s, 1, Len(s) - 1), chars) ELSE s

\* str.strip(chars)
Strip(s, chars) == RStrip(LStrip(s, chars), chars)

\* .strip().strip('"').strip("'")
StripQuoted(s) == Strip(Strip(Strip(s, Whitespace), {"\""}), {"'"})

\* value.split('#')[0]
RECURSIVE BeforeHash(_)
BeforeHash(s) ==
    IF s = <<>> \/ Head(s) = "#" THEN <<>> ELSE <<Head(s)>> \o BeforeHash(Tail(s))

\* the value stored for the text after the "="
CleanValue(raw) ==
    LET value == StripQuoted(raw)
    IN  IF "#" \in Range(value) THEN StripQuoted(BeforeHash(value)) ELSE value

\* f"{current_section}.{key}" if current_section else key: a key of the
\* parser's dict is the pair of its section ("" for none) and its name
full_key(current_section, key) == <<current_section, key>>

BareKey(key) == <<"", key>>

\* a parser that keeps the value a key already has
ParseStoreKeepFirst(data, fk, key, value) ==
    [k \in DOMAIN data \cup {fk, BareKey(key)} |->
        IF k \in DOMAIN data THEN data[k] ELSE value]

\* data[full_key] = value; data[key] = value
ParseStore(data, fk, key, value) ==
    [k \in DOMAIN data \cup {fk, BareKey(key)} |->
        IF k \in {fk, BareKey(key)} THEN value ELSE data[k]]

RECURSIVE parse_lines(_, _, _, _)
parse_lines(lines, i, data, current_section) ==
    IF i > Len(lines) THEN data
    ELSE IF lines[i].kind = "section"
         THEN parse_lines(lines, i + 1, data, lines[i].name)
         ELSE parse_lines(lines, i + 1,
                          ParseStore(data, full_key(current_section, lines[i].name),
                                     lines[i].name, CleanValue(lines[i].raw)),
                          current_section)

parse_toml_simple(lines) == parse_lines(lines, 1, EmptyDict, "")

\* the directory a search path names
RealDir(search_path) ==
    IF search_path # <<>> /\ search_path[Len(search_path)] = ".."
    THEN Dirname(SubSeq(search_path, 1, Len(search_path) - 1))
    ELSE search_path

ParentLevels == 3

\* for _ in range(3): if parent and parent != run_dir: append, go one up
RECURSIVE ParentPaths(_, _, _)
ParentPaths(rd, parent, n) ==
    IF n = 0 THEN <<>>
    ELSE IF parent # rd
         THEN <<parent>> \o ParentPaths(rd, Dirname(parent), n - 1)
         ELSE ParentPaths(rd, parent, n - 1)

FallbackPaths(rd) ==
    << <<"workspace">>, <<"workspace", "diffusion_pipe_working_folder">>, rd \o <<"..">> >>

search_paths(rd) ==
    <<rd>> \o ParentPaths(rd, Dirname(rd), ParentLevels) \o FallbackPaths(rd)

\* os.listdir(search_path): the files of the directory, in the order ord
listdir(fls, search_path, ord) ==
    SelectSeq(ord, LAMBDA f : fls[f].dir = RealDir(search_path))

\* os.path.join(search_path, f)
FullPath(search_path, f) == [dir |-> search_path, name |-> f]

RECURSIVE AddTomlFiles(_, _, _, _)
AddTomlFiles(tf, search_path, entries, i) ==
    IF i > Len(entries) THEN tf
    ELSE AddTomlFiles(
            IF EndsWithToml(entries[i]) /\ FullPath(search_path, entries[i]) \notin Range(tf)
            THEN Append(tf, FullPath(search_path, entries[i]))
            ELSE tf,
            search_path, entries, i + 1)

RECURSIVE Discover(_, _, _, _, _)
Discover(tf, fls, sps, i, ord) ==
    IF i > Len(sps) THEN tf
    ELSE Discover(AddTomlFiles(tf, sps[i], listdir(fls, sps[i], ord), 1),
                  fls, sps, i + 1, ord)

\* a read loop that yields nothing of a file whose reading raises
ReadLinesNoneOnError(fls, filepath) ==
    IF fls[filepath.name].fails_after = NoError THEN fls[filepath.name].lines ELSE <<>>

\* with open(filepath) ... for line in f, inside try/except: the lines the
\* loop yields before reading raises, all of them if it does not
ReadLines(fls, filepath) ==
    IF fls[filepath.name].fails_after = NoError
    THEN fls[filepath.name].lines
    ELSE SubSeq(fls[filepath.name].lines, 1, fls[filepath.name].fails_after)

\* an aggregation that copies every bare key of the parsed file
MergeFileAllKeys(info, parsed) ==
    [k \in DOMAIN info \cup {pk[2] : pk \in DOMAIN parsed} |->
        IF k \in DOMAIN info THEN info[k] ELSE parsed[BareKey(k)]]

\* an aggregation in which a later file overwrites an earlier one
MergeFileOverwrite(info, parsed) ==
    [k \in DOMAIN info \cup {k \in interesting_keys : BareKey(k) \in DOMAIN parsed} |->
        IF BareKey(k) \in DOMAIN parsed THEN parsed[BareKey(k)] ELSE info[k]]

\* for key in interesting_keys: if key in parsed and key not in training_info
MergeFile(info, parsed) ==
    [k \in DOMAIN info \cup {k \in interesting_keys : BareKey(k) \in DOMAIN parsed} |->
        IF k \in DOMAIN info THEN info[k] ELSE parsed[BareKey(k)]]

RECURSIVE Aggregate(_, _, _, _)
Aggregate(info, fls, tf, i) ==
    IF i > Len(tf) THEN info
    ELSE Aggregate(MergeFile(info, parse_toml_simple(ReadLines(fls, tf[i]))), fls, tf, i + 1)

\* os.path.basename of each parsed file, in order
SourceFiles(tf) == [i \in 1..Len(tf) |-> tf[i].name]

collect_training_info(rd, fls, ord) ==
    LET tf == Discover(<<>>, fls, search_paths(rd), 1, ord)
    IN  [toml_files |-> tf,
         training_info |-> Aggregate(EmptyDict, fls, tf, 1),
         source_files |-> SourceFiles(tf)]

\* ---- save_training_info(training_info, "training_info.txt") ----
\*
\* A line of text is the sequence of its characters; a key, a category name
\* and each fixed phrase stand as one element of the sequence.

BannerWidth == 50

\* "=" * 50 + "\n"
BannerText == [i \in 1..BannerWidth |-> "="] \o <<"\n">>

categories ==
    << [name |-> "Network Settings",
        keys |-> <<"network_dim", "network_alpha", "rank", "alpha", "network_module",
                   "network_type">>],
       [name |-> "Training Settings",
        keys |-> <<"learning_rate", "lr", "unet_lr", "text_encoder_lr", "max_train_epochs",
                   "max_train_steps", "epochs", "train_batch_size", "batch_size", "seed">>],
       [name |-> "Resolution", keys |-> <<"resolution", "width", "height">>],
       [name |-> "Optimizer & Scheduler",
        keys |-> <<"optimizer_type", "optimizer", "lr_scheduler", "scheduler">>],
       [name |-> "Model",
        keys |-> <<"pretrained_model_name_or_path", "model_path", "base_model",
                   "output_dir", "output_name">>],
       [name |-> "Dataset", keys |-> <<"train_data_dir", "dataset_config", "caption_extension">>],
       [name |-> "Other",
        keys |-> <<"mixed_precision", "gradient_checkpointing", "save_every_n_epochs",
                   "save_model_as">>] >>

\* a header written without its brackets
SectionHeaderTextBare(category) == <<category, "\n">>

\* f"[{category}]\n"
SectionHeaderText(category) == <<"[", category, "]", "\n">>

\* f"  {key} = {value}\n"
KeyValueText(key, value) == <<" ", " ", key, " ", "=", " ">> \o value \o <<"\n">>

\* [(k, training_info[k]) for k in keys if k in training_info]
found_keys(keys, info) == SelectSeq(keys, LAMBDA k : k \in DOMAIN info)

RECURSIVE KeyValueTexts(_, _, _)
KeyValueTexts(found, info, i) ==
    IF i > Len(found) THEN <<>>
    ELSE <<KeyValueText(found[i], info[found[i]])>> \o KeyValueTexts(found, info, i + 1)

\* the lines written for one category: nothing if none of its keys is there
CategoryText(category, info) ==
    IF found_keys(category.keys, info) = <<>> THEN <<>>
    ELSE <<SectionHeaderText(category.name)>>
         \o KeyValueTexts(found_keys(category.keys, info), info, 1)
         \o << <<"\n">> >>

RECURSIVE CategoriesText(_, _)
CategoriesText(info, i) ==
    IF i > Len(categories) THEN <<>>
    ELSE CategoryText(categories[i], info) \o CategoriesText(info, i + 1)

\* ', '.join(training_info['source_files'])
RECURSIVE JoinNames(_, _)
JoinNames(sources, i) ==
    IF i > Len(sources) THEN <<>>
    ELSE (IF i > 1 THEN <<", ">> ELSE <<>>) \o <<sources[i]>> \o JoinNames(sources, i + 1)

\* the [Source] block; each name and the date stand as one element
SourceText(sources) ==
    IF sources = <<>> THEN <<>>
    ELSE << SectionHeaderText("Source"),
            <<" ", " ", "Parsed from: ">> \o JoinNames(sources, 1) \o <<"\n">>,
            <<" ", " ", "Date: ", "now", "\n">> >>

\* what a successful save_training_info writes
SavedText(info, sources) ==
    << BannerText,
       <<" ", " ", "LoRA Training Information", "\n">>,
       <<" ", " ", "Collected by NiHao OFM LoRA Wizard", "\n">>,
       BannerText,
       <<"\n">> >>
    \o CategoriesText(info, 1)
    \o SourceText(sources)

\* "if not training_info": the dict has no entry at all
IsEmptyInfo(info, sources) == DOMAIN info = {} /\ sources = <<>>

\* ---- the parser applied to text: lines 501-511 on sequences of characters ----

SkipLine == [kind |-> "skip", name |-> "", raw |-> <<>>]

\* line.partition('='): the part before the first "=" ...
RECURSIVE BeforeEquals(_)
BeforeEquals(s) ==
    IF s = <<>> \/ Head(s) = "=" THEN <<>> ELSE <<Head(s)>> \o BeforeEquals(Tail(s))

\* ... and the part after it
RECURSIVE AfterEquals(_)
AfterEquals(s) ==
    IF s = <<>> THEN <<>> ELSE IF Head(s) = "=" THEN Tail(s) ELSE AfterEquals(Tail(s))

\* the name a stripped key or section stands for: "" if nothing is left
NameOf(s) == IF s = <<>> THEN "" ELSE s[1]

\* what the read loop makes of one line of text
LexLine(text) ==
    LET line == Strip(text, Whitespace \cup {"\n"})
    IN  IF line = <<>> \/ Head(line) = "#" THEN SkipLine
        ELSE IF Head(line) = "[" /\ line[Len(line)] = "]"
             THEN SectionLine(NameOf(Strip(SubSeq(line, 2, Len(line) - 1), Whitespace)))
             ELSE IF "=" \in Range(line)
                  THEN KVLine(NameOf(Strip(BeforeEquals(line), Whitespace)), AfterEquals(line))
                  ELSE SkipLine

\* parse_toml_simple on a file given as text
parse_toml_text(text) ==
    parse_toml_simple(
        SelectSeq([i \in 1..Len(text) |-> LexLine(text[i])], LAMBDA l : l.kind # "skip"))

RunDirs == {<<"workspace", "out", "run">>}

\* where a .toml file may lie: the run directory, its parent, a fallback
FileDirs(rd) == {rd, Dirname(rd), <<"workspace", "diffusion_pipe_working_folder">>}

\* config.txt lies in the run directory and sets an allow-listed key
OtherFile(rd) ==
    [dir |-> rd, lines |-> <<KVLine("learning_rate", <<"9">>)>>, fails_after |-> NoError]

\* the orders in which a directory may list its files
ListingOrders == {<<OtherName>> \o o : o \in Orderings(TomlNames)}

ConfigInit ==
    /\ run_dir \in RunDirs
    /\ files \in
         {[n \in TomlNames \cup {OtherName} |->
              IF n = OtherName THEN OtherFile(run_dir)
              ELSE IF n = "a.toml" THEN a ELSE b] :
            a \in FilesOnDisk("a.toml", FileDirs(run_dir)),
            b \in FilesOnDisk("b.toml", FileDirs(run_dir))}
    /\ cpc = "call"
    /\ toml_files = <<>>
    /\ training_info = EmptyDict
    /\ source_files = <<>>
    /\ saved_text = <<>>
    /\ save_result = FALSE
    /\ ScanIdle
    /\ ResolveIdle
    /\ MaskIdle
    /\ CredIdle
    /\ EpochIdle
    /\ RetryIdle
    /\ CleanupIdle
    /\ BatchIdle

Collect ==
    /\ cpc = "call"
    /\ \E ord \in ListingOrders :
         \E r \in {collect_training_info(run_dir, files, ord)} :
            /\ toml_files' = r.toml_files
            /\ training_info' = r.training_info
            /\ source_files' = r.source_files
    /\ cpc' = "done"
    /\ UNCHANGED <<run_dir, files, saved_text, save_result>>
    /\ UNCHANGED <<scanVars, resolveVars, maskVars, credVars, epochVars, retryVars, cleanupVars, batchVars>>

ConfigNext == Collect

ConfigSpec == ConfigInit /\ [][ConfigNext]_vars

\* the aggregator on files one of which may fail to read: a.toml lies in the
\* run directory and its reading may raise after any line
ConfigErrInit ==
    /\ run_dir \in RunDirs
    /\ files \in
         {[n \in TomlNames \cup {OtherName} |->
              IF n = OtherName THEN OtherFile(run_dir)
              ELSE IF n = "a.toml" THEN a ELSE b] :
            a \in FailingFilesOnDisk("a.toml", {run_dir}),
            b \in FilesOnDisk("b.toml", FileDirs(run_dir))}
    /\ cpc = "call"
    /\ toml_files = <<>>
    /\ training_info = EmptyDict
    /\ source_files = <<>>
    /\ saved_text = <<>>
    /\ save_result = FALSE
    /\ ScanIdle
    /\ ResolveIdle
    /\ MaskIdle
    /\ CredIdle
    /\ EpochIdle
    /\ RetryIdle
    /\ CleanupIdle
    /\ BatchIdle

ConfigErrSpec == ConfigErrInit /\ [][ConfigNext]_vars

\* ---- collecting and then saving: lines 1396-1402 ----

\* the keys of the files that are collected and saved, one per category
SaveKeys == <<"rank", "learning_rate", "width">>

\* the texts after the "=": plain, quoted inside apostrophes, quoted with a
\* leading blank, quoted and empty, with an inline comment
SaveRaws ==
    { <<"1">>,
      <<"'", "\"", "2", "\"", "'">>,
      <<"\"", " ", "3", "\"">>,
      <<"\"", "\"">>,
      <<"4", "#", "x">> }

Absent == <<"absent">>

RECURSIVE LinesOf(_, _)
LinesOf(choice, i) ==
    IF i > Len(SaveKeys) THEN <<>>
    ELSE (IF choice[i] = Absent THEN <<>> ELSE <<KVLine(SaveKeys[i], choice[i])>>)
         \o LinesOf(choice, i + 1)

\* a.toml sets each of SaveKeys or not; it lies in the run directory or in a
\* directory that is not searched; b.toml lies beside it and is empty
SaveInit ==
    /\ run_dir \in RunDirs
    /\ \E d \in {run_dir, <<"elsewhere">>} :
         \E choice \in [1..Len(SaveKeys) -> SaveRaws \cup {Absent}] :
            files = [n \in TomlNames \cup {OtherName} |->
                        IF n = OtherName THEN OtherFile(run_dir)
                        ELSE IF n = "a.toml"
                             THEN [dir |-> d, lines |-> LinesOf(choice, 1), fails_after |-> NoError]
                             ELSE [dir |-> d, lines |-> <<>>, fails_after |-> NoError]]
    /\ cpc = "call"
    /\ toml_files = <<>>
    /\ training_info = EmptyDict
    /\ source_files = <<>>
    /\ saved_text = <<>>
    /\ save_result = FALSE
    /\ ScanIdle
    /\ ResolveIdle
    /\ MaskIdle
    /\ CredIdle
    /\ EpochIdle
    /\ RetryIdle
    /\ CleanupIdle
    /\ BatchIdle

\* if training_info: save_training_info(training_info, "training_info.txt");
\* writable: whether open(output_path, 'w') succeeds
Save ==
    /\ cpc = "done"
    /\ \E writable \in BOOLEAN :
         IF IsEmptyInfo(training_info, source_files) \/ ~writable
         THEN /\ saved_text' = <<>>
              /\ save_result' = FALSE
         ELSE /\ saved_text' = SavedText(training_info, source_files)
              /\ save_result' = TRUE
    /\ cpc' = "saved"
    /\ UNCHANGED <<run_dir, files, toml_files, training_info, source_files>>
    /\ UNCHANGED <<scanVars, resolveVars, maskVars, credVars, epochVars, retryVars, cleanupVars, batchVars>>

SaveNext == Collect \/ Save

SaveSpec == SaveInit /\ [][SaveNext]_vars

Saved == cpc = "saved" /\ save_result

ConfigDone == cpc = "done"

\* ---- properties of the aggregator ----

\* what the parser makes of the i-th discovered file
ParsedOf(i) == parse_toml_simple(ReadLines(files, toml_files[i]))

\* the i-th discovered file defines key
Defines(i, key) == BareKey(key) \in DOMAIN ParsedOf(i)

InRunDir(i) == RealDir(toml_files[i].dir) = run_dir

\* C9: when two discovered files define the same allow-listed key, the
\* record holds the value of the one discovered first (the first of all the
\* discovered files that define the key), whatever the later one says; and
\* every file of the run directory is discovered before every file found in
\* a parent directory or in a fixed fallback location.
C9_FirstFileWins ==
    ConfigDone =>
        /\ \A parsed \in {[i \in 1..Len(toml_files) |-> ParsedOf(i)]} :
              \A i, j \in 1..Len(toml_files) :
                  i < j =>
                    \A key \in interesting_keys :
                        (/\ BareKey(key) \in DOMAIN parsed[i]
                         /\ BareKey(key) \in DOMAIN parsed[j]
                         /\ \A h \in 1..(i - 1) : BareKey(key) \notin DOMAIN parsed[h])
                        => /\ key \in DOMAIN training_info
                           /\ training_info[key] = parsed[i][BareKey(key)]
        /\ \A i, j \in 1..Len(toml_files) :
              (InRunDir(i) /\ ~InRunDir(j)) => i < j

\* two files, one in the run directory and one elsewhere, give learning_rate
\* different values, and the record holds the run directory's
C9_Witness ==
    /\ ConfigDone
    /\ Len(toml_files) >= 2
    /\ InRunDir(1)
    /\ ~InRunDir(2)
    /\ Defines(1, "learning_rate")
    /\ Defines(2, "learning_rate")
    /\ ParsedOf(1)[BareKey("learning_rate")] # ParsedOf(2)[BareKey("learning_rate")]
    /\ training_info["learning_rate"] = ParsedOf(1)[BareKey("learning_rate")]

\* the indices of the key = value lines of a file that set key, in any section
Occurrences(lines, key) ==
    {n \in 1..Len(lines) : lines[n].kind = "kv" /\ lines[n].name = key}

\* the discovered files in which key occurs
Holders(key) ==
    {i \in 1..Len(toml_files) : Occurrences(ReadLines(files, toml_files[i]), key) # {}}

Min(S) == CHOOSE x \in S : \A y \in S : x <= y

Max(S) == CHOOSE x \in S : \A y \in S : y <= x

FirstHolderLines(key) == ReadLines(files, toml_files[Min(Holders(key))])

\* the value of the first occurrence of key: first file, topmost line
FirstOccurrenceValue(key) ==
    CleanValue(FirstHolderLines(key)[Min(Occurrences(FirstHolderLines(key), key))].raw)

\* the value of the last occurrence of key in the first file that has it
LastInFirstFileValue(key) ==
    CleanValue(FirstHolderLines(key)[Max(Occurrences(FirstHolderLines(key), key))].raw)

\* C10 as claimed: the record holds, for each of its keys, the value of the
\* first occurrence of the key, files in discovery order and lines top to
\* bottom; later occurrences, in the same file too, are discarded.
C10_AsClaimed ==
    ConfigDone =>
        \A key \in DOMAIN training_info : training_info[key] = FirstOccurrenceValue(key)

\* C10 as amended: the record has an allow-listed key exactly when some
\* discovered file sets it; its value comes from the first such file in
\* discovery order, and within that file from the LAST line that sets the
\* key, under whatever section: later lines of a file overwrite earlier ones.
C10_FirstFileLastLine ==
    ConfigDone =>
        \A key \in interesting_keys :
            IF Holders(key) = {}
            THEN key \notin DOMAIN training_info
            ELSE /\ key \in DOMAIN training_info
                 /\ training_info[key] = LastInFirstFileValue(key)

\* the first file sets learning_rate twice, to different values, the second
\* time under a section, and the record holds the second value
C10_Witness ==
    /\ ConfigDone
    /\ Len(toml_files) >= 1
    /\ LET lines == ReadLines(files, toml_files[1])
       IN  /\ Len(lines) >= 3
           /\ lines[1] = KVLine("learning_rate", <<"1">>)
           /\ lines[2] = SectionLine("opt")
           /\ lines[3] = KVLine("learning_rate", <<" ", "\"", "2", "\"">>)
    /\ training_info["learning_rate"] = <<"2">>

\* C11: every key of the returned record (source_files apart) is in the
\* allow-list; a key that a file sets but the allow-list lacks, and every
\* section-qualified key, is absent from the record.
C11_OnlyAllowListedKeys ==
    ConfigDone =>
        /\ DOMAIN training_info \subseteq interesting_keys
        /\ \A i \in 1..Len(toml_files) : \A pk \in DOMAIN ParsedOf(i) :
              (pk[1] # "" \/ pk[2] \notin interesting_keys)
              => pk \notin {BareKey(k) : k \in DOMAIN training_info}

\* a discovered file sets foo and, under a section, learning_rate: the
\* record has learning_rate and lacks foo
C11_Witness ==
    /\ ConfigDone
    /\ Len(toml_files) >= 1
    /\ BareKey("foo") \in DOMAIN ParsedOf(1)
    /\ full_key("opt", "learning_rate") \in DOMAIN ParsedOf(1)
    /\ "learning_rate" \in DOMAIN training_info
    /\ "foo" \notin DOMAIN training_info

\* the i-th discovered file is one whose reading raises
Fails(i) == files[toml_files[i].name].fails_after # NoError

\* the lines of the i-th discovered file that precede the read error
LinesBeforeError(i) ==
    LET f == files[toml_files[i].name]
    IN  IF f.fails_after = NoError THEN f.lines ELSE SubSeq(f.lines, 1, f.fails_after)

\* the discovered files in which key occurs before any read error
HoldersBeforeError(key) ==
    {i \in 1..Len(toml_files) : Occurrences(LinesBeforeError(i), key) # {}}

\* the record the files that read without error would give by themselves
WithoutFailingFiles ==
    Aggregate(EmptyDict, files,
              SelectSeq(toml_files, LAMBDA fp : files[fp.name].fails_after = NoError), 1)

\* C12 as claimed: when reading a discovered file raises, the call still
\* returns, and the failing file contributes nothing: the record is the one
\* the other files give.
C12_AsClaimed ==
    ConfigDone => training_info = WithoutFailingFiles

\* C12 as amended: when reading a discovered file raises, the call still
\* returns and lists the file among its sources; the lines read before the
\* error count as the file's content (none, if the error comes before the
\* first line), and the other files are aggregated as usual.
C12_LinesBeforeErrorRetained ==
    ConfigDone =>
        /\ Len(source_files) = Len(toml_files)
        /\ \A i \in 1..Len(toml_files) : source_files[i] = toml_files[i].name
        /\ \A key \in interesting_keys :
              IF HoldersBeforeError(key) = {}
              THEN key \notin DOMAIN training_info
              ELSE \A first \in {Min(HoldersBeforeError(key))} :
                     \A lines \in {LinesBeforeError(first)} :
                        /\ key \in DOMAIN training_info
                        /\ training_info[key] =
                             CleanValue(lines[Max(Occurrences(lines, key))].raw)

\* a.toml is discovered first, sets learning_rate in its first line and
\* fails after it; b.toml sets another value; the record holds a.toml's
C12_Witness ==
    /\ ConfigDone
    /\ Len(toml_files) >= 2
    /\ toml_files[1].name = "a.toml"
    /\ toml_files[2].name = "b.toml"
    /\ files["a.toml"].fails_after = 1
    /\ Len(files["a.toml"].lines) >= 2
    /\ files["a.toml"].lines[1] = KVLine("learning_rate", <<"1">>)
    /\ files["b.toml"].lines = <<KVLine("learning_rate", <<" ", "\"", "2", "\"">>)>>
    /\ training_info["learning_rate"] = <<"1">>
    /\ source_files[1] = "a.toml"

\* the category save_training_info files key under
CategoryOf(key) ==
    (CHOOSE c \in Range(categories) : key \in Range(c.keys)).name

-----------------------------------------------------------------------------
\* mask_sensitive_data(text, token).  A text is the sequence of its
\* characters.

\* len(token) < 8: returned unchanged
MinTokenLen == 8

\* token[:4], token[-4:]
ShownChars == 4

\* the most pieces a text is put together from
MaxPieces == 3

\* tok in text
Contains(text, tok) ==
    \E i \in 1..(Len(text) - Len(tok) + 1) : SubSeq(text, i, i + Len(tok) - 1) = tok

\* text.replace(old, new), old not empty: left to right, occurrences that do
\* not overlap
RECURSIVE Replace(_, _, _)
Replace(text, old, new) ==
    IF Len(text) < Len(old) THEN text
    ELSE IF SubSeq(text, 1, Len(old)) = old
         THEN new \o Replace(SubSeq(text, Len(old) + 1, Len(text)), old, new)
         ELSE <<Head(text)>> \o Replace(Tail(text), old, new)

\* s[:n]
FirstChars(s, n) == IF Len(s) <= n THEN s ELSE SubSeq(s, 1, n)

\* s[-n:]
LastChars(s, n) == IF Len(s) <= n THEN s ELSE SubSeq(s, Len(s) - n + 1, Len(s))

\* f"{token[:4]}...{token[-4:]}"
masked(token) ==
    FirstChars(token, ShownChars) \o <<".", ".", ".">> \o LastChars(token, ShownChars)

mask_sensitive_data(text, token) ==
    IF token = <<>> \/ Len(token) < MinTokenLen THEN text
    ELSE Replace(text, token, masked(token))

\* tokens: none, too short, of 8 distinct characters, of 8 characters that
\* repeat after 4, of 12 characters
Tokens ==
    { <<>>,
      <<"h", "f", "_", "a", "b", "c", "d">>,
      <<"h", "f", "_", "a", "b", "c", "d", "e">>,
      <<"a", "b", "c", "d", "a", "b", "c", "d">>,
      <<"h", "f", "_", "a", "b", "c", "d", "e", "f", "g", "h", "i">> }

\* what a text is put together from: the token, its first four characters,
\* some other character
Pieces(token) == {token, FirstChars(token, ShownChars), <<"x">>} \ {<<>>}

RECURSIVE Concat(_, _)
Concat(pieces, i) == IF i > Len(pieces) THEN <<>> ELSE pieces[i] \o Concat(pieces, i + 1)

Texts(token) == {Concat(ps, 1) : ps \in UNION {[1..n -> Pieces(token)] : n \in 0..MaxPieces}}

MaskInit ==
    /\ mask_token \in Tokens
    /\ mask_text \in Texts(mask_token)
    /\ mask_out = <<>>
    /\ mpc = "call"
    /\ ScanIdle
    /\ ResolveIdle
    /\ ConfigIdle
    /\ CredIdle
    /\ EpochIdle
    /\ RetryIdle
    /\ CleanupIdle
    /\ BatchIdle

Mask ==
    /\ mpc = "call"
    /\ mask_out' = mask_sensitive_data(mask_text, mask_token)
    /\ mpc' = "done"
    /\ UNCHANGED <<mask_text, mask_token>>
    /\ UNCHANGED <<scanVars, resolveVars, configVars, credVars, epochVars, retryVars, cleanupVars, batchVars>>

MaskNext == Mask

MaskSpec == MaskInit /\ [][MaskNext]_vars

MaskDone == mpc = "done"

\* C14 as claimed: for a token of at least 8 characters the output of
\* mask_sensitive_data does not contain the token anywhere.
C14_AsClaimed ==
    (MaskDone /\ Len(mask_token) >= MinTokenLen) => ~Contains(mask_out, mask_token)

-----------------------------------------------------------------------------
\* The session: the token is saved and verified, the credential helper
\* script is set up, a transfer runs, the process exits.  Each system call
\* on the script is a step of its own: a Ctrl+C or another process may
\* come between two of them.

\* permission bits
OwnerRWX == {"ur", "uw", "ux"}

\* open(path, "w") creates with rw for all, less what the umask takes away
CreateBits == {"ur", "uw", "gr", "gw", "or", "ow"}

Umasks == { {"gw", "ow"}, {"gr", "gw", "gx", "or", "ow", "ox"} }

CreatedMode(mask) == CreateBits \ mask

\* the tokens a session may run with: not empty
SessionTokens == Tokens \ {<<>>}

\* what a failing operation reports: a text without the token, a text with it
FailureOutputs(tok) == { <<"x">>, <<"x">> \o tok \o <<"x">> }

\* an operation handed the token succeeds, or fails with some output
Outcomes(tok) == {[ok |-> TRUE, output |-> <<>>]}
                 \cup {[ok |-> FALSE, output |-> o] : o \in FailureOutputs(tok)}

\* a printed message: the operation, its failure output, the text printed
Message(op, output, text) == [op |-> op, output |-> output, text |-> text]

\* warn(f"Could not save token: {str(e)}")
SaveTokenMessage(output, tok) ==
    Message("login", output, <<"Could not save token: ">> \o output)

\* err(f"Error: {str(e)}")
WhoamiMessage(output, tok) ==
    Message("whoami", output, <<"Error: ">> \o output)

\* err(f"Git clone failed: {err_msg}"), err_msg masked
CloneMessage(output, tok) ==
    Message("clone", output, <<"Git clone failed: ">> \o mask_sensitive_data(output, tok))

\* err(f"Download failed: {err_msg}"), err_msg masked if token
DownloadMessage(output, tok) ==
    Message("download", output,
            <<"Download failed: ">>
            \o (IF tok # <<>> THEN mask_sensitive_data(output, tok) ELSE output))

TransferOps == {"git_clone_with_token", "git_clone_with_progress", "download_file_with_progress"}

TransferMessage(op, output, tok) ==
    IF op = "download_file_with_progress" THEN DownloadMessage(output, tok)
    ELSE CloneMessage(output, tok)

\* the token came from the prompt (it is saved first) or from the
\* environment or the cache (it is verified at once)
SessionInit ==
    /\ session_token \in SessionTokens
    /\ umask \in Umasks
    /\ spc \in {"save", "whoami"}
    /\ printed = <<>>
    /\ askpass_script = NoScript
    /\ registered = FALSE
    /\ exit_path = "none"
    /\ ScanIdle
    /\ ResolveIdle
    /\ ConfigIdle
    /\ MaskIdle
    /\ EpochIdle
    /\ RetryIdle
    /\ CleanupIdle
    /\ BatchIdle

SessionFrame == UNCHANGED <<scanVars, resolveVars, configVars, maskVars, epochVars, retryVars, cleanupVars, batchVars>>

\* login(token=token): a failure is warned about and the session goes on
SaveToken ==
    /\ spc = "save"
    /\ \E r \in Outcomes(session_token) :
         printed' = IF r.ok THEN printed
                    ELSE Append(printed, SaveTokenMessage(r.output, session_token))
    /\ spc' = "whoami"
    /\ UNCHANGED <<session_token, umask, askpass_script, registered, exit_path>>
    /\ SessionFrame

\* api.whoami(token=token): a failure is reported and the process exits
Whoami ==
    /\ spc = "whoami"
    /\ \E r \in Outcomes(session_token) :
         IF r.ok
         THEN /\ spc' = "open"
              /\ UNCHANGED <<printed, exit_path>>
         ELSE /\ printed' = Append(printed, WhoamiMessage(r.output, session_token))
              /\ exit_path' = "fatal"
              /\ spc' = "atexit"
    /\ UNCHANGED <<session_token, umask, askpass_script, registered>>
    /\ SessionFrame

\* open(askpass_script, "w"): the file is there, empty, with the mode the
\* umask leaves; a failure goes to the except branch
OpenScript ==
    /\ spc = "open"
    /\ \E succeeds \in BOOLEAN :
         IF succeeds
         THEN /\ askpass_script' =
                   [exists |-> TRUE, mode |-> CreatedMode(umask), content |-> <<>>]
              /\ spc' = "write"
         ELSE /\ spc' = "work"
              /\ UNCHANGED askpass_script
    /\ UNCHANGED <<session_token, umask, printed, registered, exit_path>>
    /\ SessionFrame

\* f.write(...) and the close of the with block: the file holds the token
WriteScript ==
    /\ spc = "write"
    /\ \E succeeds \in BOOLEAN :
         IF succeeds
         THEN /\ askpass_script' = [askpass_script EXCEPT !.content = session_token]
              /\ spc' = "chmod"
         ELSE /\ spc' = "work"
              /\ UNCHANGED askpass_script
    /\ UNCHANGED <<session_token, umask, printed, registered, exit_path>>
    /\ SessionFrame

\* os.chmod(askpass_script, S_IRUSR | S_IWUSR | S_IXUSR)
ChmodScript ==
    /\ spc = "chmod"
    /\ \E succeeds \in BOOLEAN :
         IF succeeds
         THEN /\ askpass_script' = [askpass_script EXCEPT !.mode = OwnerRWX]
              /\ spc' = "register"
         ELSE /\ spc' = "work"
              /\ UNCHANGED askpass_script
    /\ UNCHANGED <<session_token, umask, printed, registered, exit_path>>
    /\ SessionFrame

\* the else branch: GIT_ASKPASS is set and the removal registered
RegisterRemoval ==
    /\ spc = "register"
    /\ registered' = TRUE
    /\ spc' = "work"
    /\ UNCHANGED <<session_token, umask, printed, askpass_script, exit_path>>
    /\ SessionFrame

\* the clone or the download: a failure is reported and the process exits,
\* and so does it when the work is done
Transfer ==
    /\ spc = "work"
    /\ \E op \in TransferOps : \E r \in Outcomes(session_token) :
         IF r.ok
         THEN /\ exit_path' = "normal"
              /\ UNCHANGED printed
         ELSE /\ printed' = Append(printed, TransferMessage(op, r.output, session_token))
              /\ exit_path' = "fatal"
    /\ spc' = "atexit"
    /\ UNCHANGED <<session_token, umask, askpass_script, registered>>
    /\ SessionFrame

\* Ctrl+C: signal_handler cleans the temporary directories and calls
\* sys.exit(1)
Interrupt ==
    /\ spc \in {"save", "whoami", "open", "write", "chmod", "register", "work"}
    /\ exit_path' = "interrupt"
    /\ spc' = "atexit"
    /\ UNCHANGED <<session_token, umask, printed, askpass_script, registered>>
    /\ SessionFrame

\* the handlers registered with atexit run: the script is removed if its
\* removal was registered
RunAtexit ==
    /\ spc = "atexit"
    /\ askpass_script' = IF registered /\ askpass_script.exists THEN NoScript
                         ELSE askpass_script
    /\ spc' = "exited"
    /\ UNCHANGED <<session_token, umask, printed, registered, exit_path>>
    /\ SessionFrame

SessionNext ==
    \/ SaveToken
    \/ Whoami
    \/ OpenScript
    \/ WriteScript
    \/ ChmodScript
    \/ RegisterRemoval
    \/ Transfer
    \/ Interrupt
    \/ RunAtexit

SessionSpec == SessionInit /\ [][SessionNext]_vars

Exited == spc = "exited"

\* the script is on disk and holds the token
ScriptHoldsToken == askpass_script.exists /\ askpass_script.content = session_token

\* C15 as claimed: every printed message built from the failure output of
\* an operation that was handed the token has had that output masked, and
\* (for a token long enough to be masked) does not contain the token.
C15_AsClaimed ==
    \A i \in 1..Len(printed) :
        /\ \E prefix \in {<<"Could not save token: ">>, <<"Error: ">>,
                          <<"Git clone failed: ">>, <<"Download failed: ">>} :
              printed[i].text = prefix \o mask_sensitive_data(printed[i].output, session_token)
        /\ Len(session_token) >= MinTokenLen => ~Contains(printed[i].text, session_token)

\* C16 as claimed: whenever the script is on disk and holds the token, its
\* mode is rwx for the owner and nothing else.
C16_AsClaimed == ScriptHoldsToken => askpass_script.mode = OwnerRWX

\* C17 as claimed: once the script has been written, it is not on disk any
\* more when the process has exited, whatever the exit path.
C17_AsClaimed == Exited => ~ScriptHoldsToken

-----------------------------------------------------------------------------
\* The epoch range of the upload flow (lines 1335-1361) and of the
\* range-download flow (lines 1559-1583).

\* the largest number the user types
MaxInput == 3

SmallRunBelow == 10

UpperCap == 200

\* epoch numbers that may be discovered: around both thresholds
EpochValues == {1, 9, 10, 11, 199, 200, 201, 250}

Number(n) == [kind |-> "number", value |-> n]

Junk == [kind |-> "junk", value |-> 0]

Inputs == {Blank, Junk} \cup {Number(n) : n \in 0..MaxInput}

\* s == ""
IsBlank(input) == input.kind = "blank"

\* s.isdigit()
IsDigit(input) == input.kind = "number"

Range2(from, to, warned) ==
    [epoch_from |-> from, epoch_to |-> to, warned |-> warned, exited |-> FALSE]

\* err(must_be_number); sys.exit(1)
RangeExit == [epoch_from |-> 0, epoch_to |-> 0, warned |-> FALSE, exited |-> TRUE]

\* a range code that keeps the bounds as typed
TypedRangeUnswapped(from, to) == Range2(from, to, from > to)

\* if epoch_from > epoch_to: warn; swap
TypedRange(from, to) ==
    IF from > to THEN Range2(to, from, TRUE) ELSE Range2(from, to, FALSE)

\* a default that never clamps
DefaultRangeUnclamped(min, max) == Range2(min, max, FALSE)

\* a default whose lower bound is 10 whatever was discovered
DefaultRangeFromTen(min, max) ==
    Range2(SmallRunBelow, IF max > UpperCap THEN UpperCap ELSE max, FALSE)

\* the default range, both inputs blank
DefaultRange(min, max) ==
    IF max < SmallRunBelow
    THEN Range2(min, max, FALSE)
    ELSE Range2(IF min < SmallRunBelow THEN SmallRunBelow ELSE min,
                IF max > UpperCap THEN UpperCap ELSE max,
                FALSE)

\* lines 1335-1361
upload_range(min, max, from, to) ==
    IF IsBlank(from) /\ IsBlank(to) THEN DefaultRange(min, max)
    ELSE IF IsBlank(from) \/ ~IsDigit(from) THEN RangeExit
    ELSE IF IsBlank(to) \/ ~IsDigit(to) THEN RangeExit
    ELSE TypedRange(from.value, to.value)

\* lines 1559-1583
download_range(min, max, from, to) ==
    IF IsBlank(from) /\ IsBlank(to) THEN DefaultRange(min, max)
    ELSE IF IsBlank(from) \/ ~IsDigit(from) THEN RangeExit
    ELSE IF IsBlank(to) \/ ~IsDigit(to) THEN RangeExit
    ELSE TypedRange(from.value, to.value)

RangeInit ==
    /\ listed_folders = <<>>
    /\ epoch_folders = <<>>
    /\ min_epoch \in EpochValues
    /\ max_epoch \in {m \in EpochValues : min_epoch <= m}
    /\ from_input \in Inputs
    /\ to_input \in Inputs
    /\ epoch_range = NoRange
    /\ epc = "range"
    /\ ScanIdle
    /\ ResolveIdle
    /\ ConfigIdle
    /\ MaskIdle
    /\ CredIdle
    /\ RetryIdle
    /\ CleanupIdle
    /\ BatchIdle

EpochFrame == UNCHANGED <<scanVars, resolveVars, configVars, maskVars, credVars, retryVars, cleanupVars, batchVars>>

UploadRange ==
    /\ epc = "range"
    /\ epoch_range' = upload_range(min_epoch, max_epoch, from_input, to_input)
    /\ epc' = "upload"
    /\ UNCHANGED <<listed_folders, epoch_folders, min_epoch, max_epoch, from_input, to_input>>
    /\ EpochFrame

DownloadRange ==
    /\ epc = "range"
    /\ epoch_range' = download_range(min_epoch, max_epoch, from_input, to_input)
    /\ epc' = "download"
    /\ UNCHANGED <<listed_folders, epoch_folders, min_epoch, max_epoch, from_input, to_input>>
    /\ EpochFrame

RangeNext == UploadRange \/ DownloadRange

RangeSpec == RangeInit /\ [][RangeNext]_vars

RangeDone == epc \in {"upload", "download"}

\* C18: with both bounds typed as numbers and FROM > TO, the range applied
\* is [TO, FROM], a warning is given and the run goes on, in the upload
\* flow and in the range-download flow alike.
C18_InvertedBoundsSwapped ==
    (RangeDone /\ IsDigit(from_input) /\ IsDigit(to_input)
     /\ from_input.value > to_input.value)
    => /\ epoch_range.epoch_from = to_input.value
       /\ epoch_range.epoch_to = from_input.value
       /\ epoch_range.epoch_from <= epoch_range.epoch_to
       /\ epoch_range.warned
       /\ ~epoch_range.exited

\* FROM = 3 and TO = 1 were typed in the download flow: the range is 1..3
C18_Witness ==
    /\ epc = "download"
    /\ from_input = Number(3)
    /\ to_input = Number(1)
    /\ epoch_range = Range2(1, 3, TRUE)

\* C19: with both bounds blank, the range is [min, max] if max < 10;
\* otherwise its lower bound is 10 if min < 10 else min, and its upper bound
\* 200 if max > 200 else max; in both flows.
C19_DefaultRangePolicy ==
    (RangeDone /\ IsBlank(from_input) /\ IsBlank(to_input))
    => /\ ~epoch_range.exited
       /\ ~epoch_range.warned
       /\ max_epoch < 10 =>
            /\ epoch_range.epoch_from = min_epoch
            /\ epoch_range.epoch_to = max_epoch
       /\ max_epoch >= 10 =>
            /\ epoch_range.epoch_from = (IF min_epoch < 10 THEN 10 ELSE min_epoch)
            /\ epoch_range.epoch_to = (IF max_epoch > 200 THEN 200 ELSE max_epoch)

\* epochs 1 to 250 were discovered and both bounds left blank in the upload
\* flow: the range is 10..200
C19_Witness ==
    /\ epc = "upload"
    /\ IsBlank(from_input)
    /\ IsBlank(to_input)
    /\ min_epoch = 1
    /\ max_epoch = 250
    /\ epoch_range = Range2(10, 200, FALSE)

\* the sets of epoch numbers whose least and greatest members are the
\* discovered min_epoch and max_epoch
DiscoveredSets ==
    {D \in SUBSET EpochValues : min_epoch \in D /\ max_epoch \in D
                                /\ \A n \in D : min_epoch <= n /\ n <= max_epoch}

\* the range applied is not empty and holds a member of every possible set
\* of discovered numbers
RangeHoldsDiscovered ==
    /\ epoch_range.epoch_from <= epoch_range.epoch_to
    /\ \A D \in DiscoveredSets :
          \E n \in D : epoch_range.epoch_from <= n /\ n <= epoch_range.epoch_to

\* C27 as claimed: with both bounds blank, the default range contains at
\* least one discovered epoch number (so lower <= upper), for every
\* non-empty set of discovered epoch numbers.
C27_AsClaimed ==
    (RangeDone /\ IsBlank(from_input) /\ IsBlank(to_input)) => RangeHoldsDiscovered

\* C27 as amended: with both bounds blank, the default range contains at
\* least one discovered epoch number (so lower <= upper) whenever the
\* greatest discovered number is at most 200 or the least one lies in
\* 10..200; with a greatest number above 200, the range 10..200 or
\* min..200 may hold no discovered number and is empty when min > 200.
C27_DefaultRangeHoldsDiscovered ==
    (/\ RangeDone /\ IsBlank(from_input) /\ IsBlank(to_input)
     /\ \/ max_epoch <= UpperCap
        \/ (SmallRunBelow <= min_epoch /\ min_epoch <= UpperCap))
    => RangeHoldsDiscovered

\* epochs from 1 to 11 were discovered and both bounds left blank: the
\* range 10..11 holds 11, and 1 is left out
C27_Witness ==
    /\ RangeDone
    /\ IsBlank(from_input)
    /\ IsBlank(to_input)
    /\ min_epoch = 1
    /\ max_epoch = 11
    /\ epoch_range = Range2(10, 11, FALSE)
    /\ RangeHoldsDiscovered

-----------------------------------------------------------------------------
\* The epoch folders are sorted to pick the first one (lines 1298-1307).  A
\* folder name is the sequence of its characters, the prefix "epoch" as one.

\* the most epoch folders in a run directory
MaxFolders == 3

Digits == <<"0", "1", "2", "3", "4", "5", "6", "7", "8", "9">>

IsDigitChar(c) == c \in Range(Digits)

DigitValue(c) == (CHOOSE i \in 1..Len(Digits) : Digits[i] = c) - 1

\* the leading digits of s
RECURSIVE LeadingDigits(_)
LeadingDigits(s) ==
    IF s = <<>> \/ ~IsDigitChar(Head(s)) THEN <<>>
    ELSE <<Head(s)>> \o LeadingDigits(Tail(s))

\* re.findall(r'\d+', x)[0]: the first maximal run of digits, <<>> if none
RECURSIVE FirstDigitRun(_)
FirstDigitRun(name) ==
    IF name = <<>> THEN <<>>
    ELSE IF IsDigitChar(Head(name)) THEN LeadingDigits(name)
         ELSE FirstDigitRun(Tail(name))

\* int(digits)
RECURSIVE IntOf(_)
IntOf(digits) ==
    IF digits = <<>> THEN 0
    ELSE 10 * IntOf(SubSeq(digits, 1, Len(digits) - 1)) + DigitValue(digits[Len(digits)])

\* a key that puts the names without digits first
NoDigitsKeyZero == [inf |-> FALSE, n |-> 0]

\* float('inf')
NoDigitsKey == [inf |-> TRUE, n |-> 0]

\* key=lambda x: int(re.findall(r'\d+', x)[0]) if re.findall(r'\d+', x) else float('inf')
SortKey(name) ==
    IF FirstDigitRun(name) = <<>> THEN NoDigitsKey
    ELSE [inf |-> FALSE, n |-> IntOf(FirstDigitRun(name))]

\* a < b on the keys
KeyBefore(a, b) == ~a.inf /\ (b.inf \/ a.n < b.n)

\* x put into a sorted list behind every element whose key is not greater
RECURSIVE InsertSorted(_, _)
InsertSorted(sorted, x) ==
    IF sorted = <<>> THEN <<x>>
    ELSE IF KeyBefore(SortKey(x), SortKey(Head(sorted)))
         THEN <<x>> \o sorted
         ELSE <<Head(sorted)>> \o InsertSorted(Tail(sorted), x)

\* list.sort(key=...): stable
RECURSIVE SortFrom(_, _, _)
SortFrom(sorted, list, i) ==
    IF i > Len(list) THEN sorted
    ELSE SortFrom(InsertSorted(sorted, list[i]), list, i + 1)

SortedByKey(list) == SortFrom(<<>>, list, 1)

\* epoch10, epoch2, epoch, epoch_b, epoch007, epoch2_9
FolderNames ==
    { <<"epoch", "1", "0">>,
      <<"epoch", "2">>,
      <<"epoch">>,
      <<"epoch", "_", "b">>,
      <<"epoch", "0", "0", "7">>,
      <<"epoch", "2", "_", "9">> }

\* what os.listdir may give: some of the names, in any order
Listings ==
    UNION {{l \in [1..n -> FolderNames] : \A i, j \in 1..n : l[i] = l[j] => i = j} :
             n \in 0..MaxFolders}

SortInit ==
    /\ listed_folders \in Listings
    /\ epoch_folders = listed_folders
    /\ min_epoch = 0
    /\ max_epoch = 0
    /\ from_input = Blank
    /\ to_input = Blank
    /\ epoch_range = NoRange
    /\ epc = "sort"
    /\ ScanIdle
    /\ ResolveIdle
    /\ ConfigIdle
    /\ MaskIdle
    /\ CredIdle
    /\ RetryIdle
    /\ CleanupIdle
    /\ BatchIdle

\* if not epoch_folders: exit; epoch_folders.sort(key=...)
SortFolders ==
    /\ epc = "sort"
    /\ IF epoch_folders = <<>>
       THEN /\ epc' = "exit"
            /\ UNCHANGED epoch_folders
       ELSE /\ epoch_folders' = SortedByKey(epoch_folders)
            /\ epc' = "sorted"
    /\ UNCHANGED <<listed_folders, min_epoch, max_epoch, from_input, to_input, epoch_range>>
    /\ EpochFrame

SortNext == SortFolders

SortSpec == SortInit /\ [][SortNext]_vars

HasDigit(name) == \E i \in 1..Len(name) : IsDigitChar(name[i])

\* C20: the sorted list holds the listed folders, ordered by the integer
\* value of the first maximal run of digits in the name, each folder whose
\* name has no digit behind every folder whose name has one.
C20_SortedByFirstDigitRun ==
    epc = "sorted" =>
        /\ Len(epoch_folders) = Len(listed_folders)
        /\ Range(epoch_folders) = Range(listed_folders)
        /\ \A i, j \in 1..Len(epoch_folders) :
              i < j =>
                /\ HasDigit(epoch_folders[j]) => HasDigit(epoch_folders[i])
                /\ (HasDigit(epoch_folders[i]) /\ HasDigit(epoch_folders[j])) =>
                     IntOf(FirstDigitRun(epoch_folders[i]))
                        <= IntOf(FirstDigitRun(epoch_folders[j]))

\* listed epoch, epoch10, epoch2_9: sorted epoch2_9, epoch10, epoch
C20_Witness ==
    /\ epc = "sorted"
    /\ listed_folders = << <<"epoch">>, <<"epoch", "1", "0">>, <<"epoch", "2", "_", "9">> >>
    /\ epoch_folders = << <<"epoch", "2", "_", "9">>, <<"epoch", "1", "0">>, <<"epoch">> >>

-----------------------------------------------------------------------------
\* retry_on_error(func, max_retries, delay) (lines 374-406).  A call of func
\* returns a result, raises an Exception, or raises an exception that is no
\* Exception (KeyboardInterrupt), which `except Exception` does not catch.
\* Results and exceptions carry the number of the call they come from.

\* the greatest max_retries
MaxRetries == 4

\* the greatest delay
MaxDelay == 3

FuncEnds == {"result", "Exception", "KeyboardInterrupt"}

Returned(c) == [kind |-> "returned", type |-> "result", call |-> c]

Raised(e) == [kind |-> "raised", type |-> e.type, call |-> e.call]

\* `raise last_exception` with last_exception = None
RaiseNone == [type |-> "TypeError", call |-> 0]

\* a wait that does not grow
WaitTimeFlat(d, k) == d

\* wait_time = delay * (2 ** attempt)
WaitTime(d, k) == d * (2 ^ k)

\* `if attempt < max_retries - 1`
AttemptFollows == attempt < max_retries - 1

RetryInit ==
    /\ max_retries \in 0..MaxRetries
    /\ delay \in 0..MaxDelay
    /\ attempt = 0
    /\ func_calls = <<>>
    /\ sleeps = <<>>
    /\ last_exception = NoException
    /\ retry_out = NoOutcome
    /\ tpc = "loop"
    /\ ScanIdle
    /\ ResolveIdle
    /\ ConfigIdle
    /\ MaskIdle
    /\ CredIdle
    /\ EpochIdle
    /\ CleanupIdle
    /\ BatchIdle

RetryFrame == UNCHANGED <<scanVars, resolveVars, configVars, maskVars, credVars, epochVars, cleanupVars, batchVars>>

\* one iteration of `for attempt in range(max_retries)` in which func returns
CallReturns ==
    /\ tpc = "loop"
    /\ attempt < max_retries
    /\ func_calls' = Append(func_calls, "result")
    /\ retry_out' = Returned(Len(func_calls) + 1)
    /\ tpc' = "done"
    /\ UNCHANGED <<max_retries, delay, attempt, sleeps, last_exception>>
    /\ RetryFrame

\* one iteration in which func raises an Exception: it is kept, and the
\* loop sleeps when another attempt follows
CallFails ==
    /\ tpc = "loop"
    /\ attempt < max_retries
    /\ func_calls' = Append(func_calls, "Exception")
    /\ last_exception' = [type |-> "Exception", call |-> Len(func_calls) + 1]
    /\ sleeps' = IF AttemptFollows THEN Append(sleeps, WaitTime(delay, attempt)) ELSE sleeps
    /\ attempt' = attempt + 1
    /\ UNCHANGED <<max_retries, delay, retry_out, tpc>>
    /\ RetryFrame

\* one iteration in which func raises what `except Exception` lets through
CallInterrupted ==
    /\ tpc = "loop"
    /\ attempt < max_retries
    /\ func_calls' = Append(func_calls, "KeyboardInterrupt")
    /\ retry_out' = Raised([type |-> "KeyboardInterrupt", call |-> Len(func_calls) + 1])
    /\ tpc' = "done"
    /\ UNCHANGED <<max_retries, delay, attempt, sleeps, last_exception>>
    /\ RetryFrame

\* the loop is over: `raise last_exception`
RaiseLast ==
    /\ tpc = "loop"
    /\ attempt >= max_retries
    /\ retry_out' = IF last_exception = NoException THEN Raised(RaiseNone)
                    ELSE Raised(last_exception)
    /\ tpc' = "done"
    /\ UNCHANGED <<max_retries, delay, attempt, func_calls, sleeps, last_exception>>
    /\ RetryFrame

RetryNext == CallReturns \/ CallFails \/ CallInterrupted \/ RaiseLast

RetrySpec == RetryInit /\ [][RetryNext]_vars

RetryDone == tpc = "done"

\* the number of calls of func that raised an Exception
FailedCalls == Cardinality({i \in 1..Len(func_calls) : func_calls[i] = "Exception"})

\* C22: retry_on_error calls func at most max_retries times; no call follows
\* a call that returned, and the result of that call is what is returned;
\* after the k-th failed attempt, k from 0, it has slept delay * 2^k exactly
\* when another attempt follows (k < max_retries - 1); and when at least one
\* attempt was made and every attempt failed, what is raised is the
\* exception of the last attempt.
C22_RetryOnError ==
    /\ Len(func_calls) <= max_retries
    /\ \A i \in 1..(Len(func_calls) - 1) : func_calls[i] = "Exception"
    /\ (\E i \in 1..Len(func_calls) : func_calls[i] = "result")
          => retry_out = Returned(Len(func_calls))
    /\ Len(sleeps) = (IF FailedCalls < max_retries THEN FailedCalls ELSE max_retries - 1)
          \/ max_retries = 0
    /\ \A k \in 0..(Len(sleeps) - 1) : sleeps[k + 1] = delay * (2 ^ k)
    /\ (RetryDone /\ func_calls # <<>> /\ \A i \in 1..Len(func_calls) : func_calls[i] # "result")
          => /\ retry_out.kind = "raised"
             /\ retry_out.call = Len(func_calls)
             /\ retry_out.type = func_calls[Len(func_calls)]

\* with max_retries = 4 and delay = 2, func failed three times and then
\* returned: the waits were 2, 4 and 8 and the fourth result was returned
C22_Witness ==
    /\ RetryDone
    /\ max_retries = 4
    /\ delay = 2
    /\ func_calls = <<"Exception", "Exception", "Exception", "result">>
    /\ sleeps = <<2, 4, 8>>
    /\ retry_out = Returned(4)

-----------------------------------------------------------------------------
\* The cleanup list (lines 25-46), the clone that registers a directory in
\* it (lines 1158-1192) and the push that takes it out again (lines
\* 1404-1416).  Paths on disk are absolute; the entries of CLEANUP_DIRS are
\* the relative names the code appends, resolved against the current
\* directory when they are used.

\* the most entries of CLEANUP_DIRS
MaxPending == 2

\* the directory the program is started in
Work == <<"work">>

\* repo_dir = repo_name: a relative name
repo_dir == <<"repo">>

RepoPath == Work \o repo_dir
GitDir == RepoPath \o <<".git">>
Inner == RepoPath \o <<"repo">>
Weights == RepoPath \o <<"w.bin">>
Other == Work \o <<"other">>

\* the paths other than a directory
RegularFiles == {Weights}

\* every path below the start directory, children before their parent, in
\* the order in which shutil.rmtree comes to remove them
PostOrder == <<GitDir, Inner, Weights, RepoPath, Other>>

\* os.path.join(os.getcwd(), dir_path)
Abs(cur, rel) == cur \o rel

\* a removal that gives up after the first entry
RemovedEntriesFirstOnly(entries, lck) ==
    {i \in 1..Len(entries) : i = 1 /\ entries[i] \notin lck}

\* the entries shutil.rmtree removes before the first one whose removal fails
RemovedEntries(entries, lck) ==
    {i \in 1..Len(entries) : \A j \in 1..i : entries[j] \notin lck}

\* shutil.rmtree(path) for a path that exists
Rmtree(dsk, lck, path) ==
    IF path \in RegularFiles
    THEN [disk |-> dsk, error |-> "NotADirectoryError"]
    ELSE LET below(q) == q \in dsk /\ IsPrefix(path, q)
             entries == SelectSeq(PostOrder, below)
             gone == {entries[i] : i \in RemovedEntries(entries, lck)}
         IN [disk |-> dsk \ gone,
             error |-> IF Cardinality(gone) = Len(entries) THEN "none"
                       ELSE "PermissionError"]

\* `except Exception`
IsException(e) == e \in {"NotADirectoryError", "PermissionError"}

RECURSIVE cleanup_on_exit(_, _, _, _, _)
\* the loop `for dir_path in CLEANUP_DIRS`: the disk it leaves, the paths it
\* applied rmtree to, and the exception that left it
cleanup_on_exit(dsk, lck, cur, dirs, targets) ==
    IF dirs = <<>> THEN [disk |-> dsk, targets |-> targets, error |-> "none"]
    ELSE LET dir_path == Abs(cur, Head(dirs))
         IN IF dir_path \in dsk
            THEN LET r == Rmtree(dsk, lck, dir_path)
                 IN IF r.error = "none" \/ IsException(r.error)
                    THEN cleanup_on_exit(r.disk, lck, cur, Tail(dirs), targets \cup {dir_path})
                    ELSE [disk |-> r.disk, targets |-> targets \cup {dir_path},
                          error |-> r.error]
            ELSE cleanup_on_exit(dsk, lck, cur, Tail(dirs), targets)

\* the parents of every path on d are on d
ParentClosed(d) == \A q \in d : Len(q) > 1 => Dirname(q) \in d

Disks == {d \cup {Work} : d \in {x \in SUBSET Range(PostOrder) : ParentClosed(x \cup {Work})}}

\* names that may stand in CLEANUP_DIRS
PendingNames == {repo_dir, <<"other">>, <<"w.bin">>}

PendingLists == UNION {[1..k -> PendingNames] : k \in 0..MaxPending}

CleanupFrame ==
    UNCHANGED <<scanVars, resolveVars, configVars, maskVars, credVars, epochVars, retryVars, batchVars>>

\* the program at any point, with any pending list
CleanupInit ==
    /\ disk \in Disks
    /\ locked \in SUBSET (disk \ {Work})
    /\ cwd \in {Work, RepoPath} \cap disk
    /\ CLEANUP_DIRS \in PendingLists
    /\ kpc = "running"
    /\ cleanup_calls = 0
    /\ fresh_clone = <<>>
    /\ pushed = FALSE
    /\ removed = {}
    /\ cleanup_error = "none"
    /\ ScanIdle
    /\ ResolveIdle
    /\ ConfigIdle
    /\ MaskIdle
    /\ CredIdle
    /\ EpochIdle
    /\ RetryIdle
    /\ BatchIdle

Running == kpc \in {"running", "local", "cloned", "inrepo", "run_chosen", "copied", "pushed"}

\* what a call of cleanup_on_exit does to the state
RunCleanup ==
    \E r \in {cleanup_on_exit(disk, locked, cwd, CLEANUP_DIRS, {})} :
        /\ disk' = r.disk
        /\ removed' = removed \cup r.targets
        /\ cleanup_error' = r.error
        /\ cleanup_calls' = cleanup_calls + 1

\* signal_handler: cleanup_on_exit(); sys.exit(1)
CleanupInterrupt ==
    /\ Running
    /\ RunCleanup
    /\ kpc' = "exiting"
    /\ UNCHANGED <<cwd, locked, CLEANUP_DIRS, fresh_clone, pushed>>
    /\ CleanupFrame

\* the program comes to its end
Finish ==
    /\ kpc \in {"running", "pushed"}
    /\ kpc' = "exiting"
    /\ UNCHANGED <<cwd, disk, locked, CLEANUP_DIRS, cleanup_calls, fresh_clone, pushed,
                   removed, cleanup_error>>
    /\ CleanupFrame

\* the exit hook: atexit.register(cleanup_on_exit)
CleanupAtexit ==
    /\ kpc = "exiting"
    /\ RunCleanup
    /\ kpc' = "exited"
    /\ UNCHANGED <<cwd, locked, CLEANUP_DIRS, fresh_clone, pushed>>
    /\ CleanupFrame

CleanupNext == CleanupInterrupt \/ Finish \/ CleanupAtexit

CleanupSpec == CleanupInit /\ [][CleanupNext]_vars

\* C23: when the cleanup routine runs a second time (from the exit hook,
\* after the interrupt handler ran it), for any pending list and any disk,
\* no exception leaves it and it leaves the disk as the first run left it.
C23_CleanupIdempotent ==
    [][(kpc = "exiting" /\ cleanup_calls = 1 /\ cleanup_calls' = 2)
          => (disk' = disk /\ cleanup_error = "none" /\ cleanup_error' = "none")]_vars

\* the pending list names the same directory twice; the handler's run
\* removed it, and the exit hook's run has been made
C23_Witness ==
    /\ kpc = "exited"
    /\ cleanup_calls = 2
    /\ CLEANUP_DIRS = <<repo_dir, repo_dir>>
    /\ RepoPath \in removed
    /\ RepoPath \notin disk

\* ---- the upload flow around the clone: lines 1158-1192 and 1404-1416 ----

\* what `git clone` puts on disk: the repository directory, its .git, and
\* a directory of the repository's content that bears the repository's name
\* when the repository holds one
CloneContent(inner) == {RepoPath, GitDir} \cup (IF inner THEN {Inner} ELSE {})

\* CLEANUP_DIRS.remove(repo_dir): the first occurrence
RemoveFirst(dirs, d) ==
    LET hits == {i \in 1..Len(dirs) : dirs[i] = d}
        k == CHOOSE i \in hits : \A j \in hits : i <= j
    IN IF hits = {} THEN dirs
       ELSE SubSeq(dirs, 1, k - 1) \o SubSeq(dirs, k + 1, Len(dirs))

\* the upload flow before step 3: started in Work, nothing registered
UploadInit ==
    /\ disk \in {d \in Disks : Weights \notin d /\ Inner \notin d}
    /\ locked \in SUBSET (disk \ {Work})
    /\ cwd = Work
    /\ CLEANUP_DIRS = <<>>
    /\ kpc = "local"
    /\ cleanup_calls = 0
    /\ fresh_clone = <<>>
    /\ pushed = FALSE
    /\ removed = {}
    /\ cleanup_error = "none"
    /\ ScanIdle
    /\ ResolveIdle
    /\ ConfigIdle
    /\ MaskIdle
    /\ CredIdle
    /\ EpochIdle
    /\ RetryIdle
    /\ BatchIdle

\* sys.exit(1) with nothing else changed
ExitOne ==
    /\ kpc' = "exiting"
    /\ UNCHANGED <<cwd, disk, locked, CLEANUP_DIRS, cleanup_calls, fresh_clone, pushed,
                   removed, cleanup_error>>
    /\ CleanupFrame

\* the folder exists and is no git repository: err_not_git
NotGit ==
    /\ kpc = "local"
    /\ RepoPath \in disk /\ GitDir \notin disk
    /\ ExitOne

\* the folder is a repository and the user keeps it
UseLocal ==
    /\ kpc = "local"
    /\ GitDir \in disk
    /\ kpc' = "cloned"
    /\ UNCHANGED <<cwd, disk, locked, CLEANUP_DIRS, cleanup_calls, fresh_clone, pushed,
                   removed, cleanup_error>>
    /\ CleanupFrame

\* CLEANUP_DIRS.append(repo_dir); git_clone_with_progress(...) from the disk
\* `dsk`: the clone fails when the folder is still there, and may fail
\* otherwise
RegisterAndClone(dsk) ==
    /\ CLEANUP_DIRS' = Append(CLEANUP_DIRS, repo_dir)
    /\ \/ /\ RepoPath \notin dsk
          /\ \E inner \in BOOLEAN : disk' = dsk \cup CloneContent(inner)
          /\ fresh_clone' = RepoPath
          /\ kpc' = "cloned"
       \/ /\ \E left \in {{}, {RepoPath}} : disk' = dsk \cup left
          /\ fresh_clone' = fresh_clone
          /\ kpc' = "exiting"
    /\ UNCHANGED <<cwd, locked, cleanup_calls, pushed, removed, cleanup_error>>
    /\ CleanupFrame

\* the folder is a repository and the user has it deleted and cloned again
Reclone ==
    /\ kpc = "local"
    /\ GitDir \in disk
    /\ RegisterAndClone(Rmtree(disk, locked, RepoPath).disk)

\* there is no such folder: clone
CloneFresh ==
    /\ kpc = "local"
    /\ RepoPath \notin disk
    /\ RegisterAndClone(disk)

\* os.chdir(repo_dir)
Chdir ==
    /\ kpc = "cloned"
    /\ cwd' = Abs(cwd, repo_dir)
    /\ kpc' = "inrepo"
    /\ UNCHANGED <<disk, locked, CLEANUP_DIRS, cleanup_calls, fresh_clone, pushed, removed,
                   cleanup_error>>
    /\ CleanupFrame

\* step 5 found or was given a run directory
RunChosen ==
    /\ kpc = "inrepo"
    /\ kpc' = "run_chosen"
    /\ UNCHANGED <<cwd, disk, locked, CLEANUP_DIRS, cleanup_calls, fresh_clone, pushed,
                   removed, cleanup_error>>
    /\ CleanupFrame

\* no run directory found and none given: sys.exit(1)
NoRunFound == kpc = "inrepo" /\ ExitOne

\* the copy loop put at least one file into the repository
FilesCopied ==
    /\ kpc = "run_chosen"
    /\ disk' = disk \cup {Weights}
    /\ kpc' = "copied"
    /\ UNCHANGED <<cwd, locked, CLEANUP_DIRS, cleanup_calls, fresh_clone, pushed, removed,
                   cleanup_error>>
    /\ CleanupFrame

\* success_count == 0: no_files_range, sys.exit(1)
NoFilesInRange == kpc = "run_chosen" /\ ExitOne

\* git push succeeded: the directory is taken out of the list
PushOk ==
    /\ kpc = "copied"
    /\ CLEANUP_DIRS' = RemoveFirst(CLEANUP_DIRS, repo_dir)
    /\ pushed' = TRUE
    /\ kpc' = "pushed"
    /\ UNCHANGED <<cwd, disk, locked, cleanup_calls, fresh_clone, removed, cleanup_error>>
    /\ CleanupFrame

\* result.returncode != 0: "Push failed.", sys.exit(1)
PushFailed == kpc = "copied" /\ ExitOne

UploadNext ==
    \/ NotGit \/ UseLocal \/ Reclone \/ CloneFresh \/ Chdir
    \/ RunChosen \/ NoRunFound \/ FilesCopied \/ NoFilesInRange
    \/ PushOk \/ PushFailed \/ Finish
    \/ CleanupInterrupt \/ CleanupAtexit

UploadSpec == UploadInit /\ [][UploadNext]_vars

\* C28 as claimed: when the flow registered a freshly cloned directory and
\* the process exited before a successful push, the exit cleanup has removed
\* that directory; the cleanup applies its removal to no directory but the
\* registered one; and after a successful push the clone is kept.
C28_AsClaimed ==
    kpc = "exited" =>
        /\ (fresh_clone # <<>> /\ ~pushed) => fresh_clone \notin disk
        /\ removed \subseteq {RepoPath}
        /\ (fresh_clone # <<>> /\ pushed) => fresh_clone \in disk

-----------------------------------------------------------------------------
\* The batch transfers: the upload copy loop (lines 1362-1392) and the range
\* download loop (lines 1593-1628).  An epoch folder name is the sequence
\* of its characters, the prefix "epoch" as one.

\* the greatest bound of a range
MaxEpoch == 3

\* epoch1, epoch2, epoch02, epoch3_b
CopyFolderNames ==
    { <<"epoch", "1">>, <<"epoch", "2">>, <<"epoch", "0", "2">>, <<"epoch", "3", "_", "b">> }

RECURSIVE StrOf(_)
\* str(n), as in f"epoch{num}"
StrOf(n) == IF n < 10 THEN <<Digits[n + 1]>> ELSE StrOf(n \div 10) \o <<Digits[(n % 10) + 1]>>

\* f"epoch{num}" of src_file = os.path.join(run_dir, f"epoch{num}", epoch_file_name)
FolderOf(n) == <<"epoch">> \o StrOf(n)

\* re.match(r'epoch(\d+)', folder): whether the folder contributes a number
HasNumber(folder) == LeadingDigits(Tail(folder)) # <<>>

\* int(match.group(1))
NumberOf(folder) == IntOf(LeadingDigits(Tail(folder)))

\* os.path.isfile(src_file)
IsFile(n) == FolderOf(n) \in DOMAIN epoch_dirs /\ epoch_dirs[FolderOf(n)]

BatchFrame ==
    UNCHANGED <<scanVars, resolveVars, configVars, maskVars, credVars, epochVars, retryVars,
                cleanupVars>>

\* the upload flow before the copy loop: at least one folder has a number
\* (line 1332), the range is as applied
CopyInit ==
    /\ epoch_dirs \in UNION {[S -> BOOLEAN] : S \in SUBSET CopyFolderNames}
    /\ \E f \in DOMAIN epoch_dirs : HasNumber(f)
    /\ final_present \in BOOLEAN
    /\ remote_epochs = {}
    /\ batch_from \in 1..MaxEpoch
    /\ batch_to \in batch_from..MaxEpoch
    /\ num = batch_from
    /\ files_to_download = <<>>
    /\ di = 0
    /\ success_count = 0
    /\ fail_count = 0
    /\ added = {}
    /\ raised = {}
    /\ bpc = "copy"
    /\ exit_status = NotExited
    /\ ScanIdle
    /\ ResolveIdle
    /\ ConfigIdle
    /\ MaskIdle
    /\ CredIdle
    /\ EpochIdle
    /\ RetryIdle
    /\ CleanupIdle

\* one iteration of `for num in range(epoch_from, epoch_to + 1)`
CopyEpoch ==
    /\ bpc = "copy"
    /\ num <= batch_to
    /\ \E copied \in BOOLEAN :
         IF IsFile(num) /\ copied
         THEN /\ success_count' = success_count + 1
              /\ added' = added \cup {[dest |-> num, src |-> FolderOf(num)]}
              /\ UNCHANGED <<fail_count, raised>>
         ELSE /\ fail_count' = fail_count + 1
              /\ raised' = IF IsFile(num) THEN raised \cup {num} ELSE raised
              /\ UNCHANGED <<success_count, added>>
    /\ num' = num + 1
    /\ UNCHANGED <<epoch_dirs, final_present, remote_epochs, batch_from, batch_to,
                   files_to_download, di, bpc, exit_status>>
    /\ BatchFrame

\* after the loop: final.safetensors is copied when there is one, and
\* `if success_count == 0: err(no_files_range); sys.exit(1)`
CopyEnd ==
    /\ bpc = "copy"
    /\ num > batch_to
    /\ \E copied \in BOOLEAN :
         /\ success_count' = IF final_present /\ copied THEN success_count + 1
                             ELSE success_count
         /\ IF success_count' = 0
            THEN bpc' = "exited" /\ exit_status' = 1
            ELSE bpc' = "copied" /\ exit_status' = exit_status
    /\ UNCHANGED <<epoch_dirs, final_present, remote_epochs, batch_from, batch_to, num,
                   files_to_download, di, fail_count, added, raised>>
    /\ BatchFrame

CopyNext == CopyEpoch \/ CopyEnd

CopySpec == CopyInit /\ [][CopyNext]_vars

\* files_to_download: the numbers of the range with a file in the repository
Queue(from, to, epochs) ==
    LET wanted(n) == n \in epochs
    IN SelectSeq([i \in 1..(to - from + 1) |-> from + i - 1], wanted)

\* the range download before its loop: files_to_download is not empty
\* (line 1601)
DownloadInit ==
    /\ epoch_dirs = EmptyDict
    /\ final_present = FALSE
    /\ remote_epochs \in SUBSET (1..MaxEpoch)
    /\ batch_from \in 1..MaxEpoch
    /\ batch_to \in batch_from..MaxEpoch
    /\ num = 0
    /\ files_to_download = Queue(batch_from, batch_to, remote_epochs)
    /\ files_to_download # <<>>
    /\ di = 1
    /\ success_count = 0
    /\ fail_count = 0
    /\ added = {}
    /\ raised = {}
    /\ bpc = "download"
    /\ exit_status = NotExited
    /\ ScanIdle
    /\ ResolveIdle
    /\ ConfigIdle
    /\ MaskIdle
    /\ CredIdle
    /\ EpochIdle
    /\ RetryIdle
    /\ CleanupIdle

\* one iteration of `for fname in files_to_download`
DownloadFile ==
    /\ bpc = "download"
    /\ di <= Len(files_to_download)
    /\ \E downloaded \in BOOLEAN :
         IF downloaded
         THEN /\ success_count' = success_count + 1
              /\ added' = added \cup {[dest |-> files_to_download[di], src |-> <<>>]}
              /\ UNCHANGED <<fail_count, raised>>
         ELSE /\ fail_count' = fail_count + 1
              /\ raised' = raised \cup {files_to_download[di]}
              /\ UNCHANGED <<success_count, added>>
    /\ di' = di + 1
    /\ UNCHANGED <<epoch_dirs, final_present, remote_epochs, batch_from, batch_to, num,
                   files_to_download, bpc, exit_status>>
    /\ BatchFrame

\* after the loop: the summary and the thanks message; the program ends
DownloadEnd ==
    /\ bpc = "download"
    /\ di > Len(files_to_download)
    /\ bpc' = "exited"
    /\ exit_status' = 0
    /\ UNCHANGED <<epoch_dirs, final_present, remote_epochs, batch_from, batch_to, num,
                   files_to_download, di, success_count, fail_count, added, raised>>
    /\ BatchFrame

BatchNext == CopyEpoch \/ CopyEnd \/ DownloadFile \/ DownloadEnd

\* either batch transfer
BatchInit == CopyInit \/ DownloadInit

BatchSpec == BatchInit /\ [][BatchNext]_vars

\* the batch is over
BatchEnded == bpc \in {"copied", "exited"}

\* the number of files the batch went through
BatchSize ==
    IF files_to_download # <<>> THEN Len(files_to_download) ELSE batch_to - batch_from + 1

\* C21 as claimed: in the upload copy loop and in the range download loop a
\* file that fails is counted and the batch goes on to its end, and a batch
\* that ends with no file transferred ends the process with a non-zero exit
\* status.
C21_AsClaimed ==
    BatchEnded =>
        /\ fail_count + Cardinality(added) = BatchSize
        /\ success_count = 0 => (bpc = "exited" /\ exit_status > 0)

\* C29 as claimed: in the upload flow, for every epoch folder that
\* contributes a number n, when n lies in the applied range, the folder
\* holds the chosen file and the copy to epoch<n>.safetensors did not fail,
\* the file of that folder has been put in place as epoch<n>.safetensors and
\* counted.
C29_AsClaimed ==
    (BatchEnded /\ epoch_dirs # EmptyDict) =>
        \A f \in DOMAIN epoch_dirs :
            (/\ HasNumber(f)
             /\ batch_from <= NumberOf(f) /\ NumberOf(f) <= batch_to
             /\ epoch_dirs[f]
             /\ NumberOf(f) \notin raised)
            => [dest |-> NumberOf(f), src |-> f] \in added

=============================================================================
